---- MODULE Spec2Model ----
(***************************************************************************)
(* Model of the auto-n8n MCP server: the call-tool dispatcher, the zod     *)
(* argument validation, the N8nClient REST binding with its error          *)
(* normalisation, and the response formatting of each tool handler.        *)
(*                                                                         *)
(* The repository ships two dispatchers: dist/server.js (the compiled      *)
(* server with the remote-backed tools) and src/server.ts (the source      *)
(* server with the local catalog tools).  The variable build says which    *)
(* one is running.                                                         *)
(*                                                                         *)
(* Texts are sequences of tokens; a text "contains" a word when the word   *)
(* is one of its tokens.  The emoji prefixes of the response texts are     *)
(* written in ASCII.                                                       *)
(***************************************************************************)
EXTENDS Integers, Sequences, FiniteSets, TLC

VARIABLES build, pc, name, args, params, outbound, log, reply, response,
          escaped, validationFailed, page, env, proc, config, calls, examples,
          searched

vars == <<build, pc, name, args, params, outbound, log, reply, response,
          escaped, validationFailed, page, env, proc, config, calls, examples,
          searched>>

(***************************************************************************)
(* Bounds                                                                  *)
(***************************************************************************)
\* largest number of properties in which an argument object differs from
\* the minimal valid one
MaxArgFields == 2
\* largest number of items in a list page returned by the remote API
MaxItems == 1

Range(s) == {s[i] : i \in DOMAIN s}

(***************************************************************************)
(* JavaScript values: t is the runtime type, s the string content (or the  *)
(* kind of the items of an array), n the number (or the array length).     *)
(***************************************************************************)
Undefined == [t |-> "undefined", s |-> "", n |-> 0]
Str(s)    == [t |-> "string", s |-> s, n |-> 0]
Num(n)    == [t |-> "number", s |-> "", n |-> n]
Bool(b)   == [t |-> "boolean", s |-> IF b THEN "true" ELSE "false", n |-> 0]
Arr(n, item) == [t |-> "array", s |-> item, n |-> n]
Obj       == [t |-> "object", s |-> "", n |-> 0]

EmptyObj == [f \in {} |-> Undefined]
\* request.params.arguments: absent, or an object
NoArgs      == [given |-> FALSE, obj |-> EmptyObj]
ArgsOf(o)   == [given |-> TRUE, obj |-> o]
Get(o, f)   == IF f \in DOMAIN o THEN o[f] ELSE Undefined

(***************************************************************************)
(* zod 3 schemas.  A schema is a base type with its checks, wrapped by     *)
(* ZodOptional / ZodDefault; wrap lists the wrappers outermost first.      *)
(***************************************************************************)
ZBase(kind) == [kind |-> kind, hasMin |-> FALSE, min |-> 0, hasMax |-> FALSE,
                max |-> 0, msg |-> "", enum |-> {}, item |-> "any",
                wrap |-> <<>>, def |-> Undefined]
ZString        == ZBase("string")
\* z.string().min(1, m)
ZStringMin(m)  == [ZBase("string") EXCEPT !.hasMin = TRUE, !.min = 1, !.msg = m]
ZNumber        == ZBase("number")
\* z.number().min(lo).max(hi)
ZNumberRange(lo, hi) == [ZBase("number") EXCEPT !.hasMin = TRUE, !.min = lo,
                                                !.hasMax = TRUE, !.max = hi]
ZBoolean       == ZBase("boolean")
ZEnum(vals)    == [ZBase("enum") EXCEPT !.enum = vals]
ZArray(item)   == [ZBase("array") EXCEPT !.item = item]
ZRecord        == ZBase("object")
ZOptional(z)   == [z EXCEPT !.wrap = <<"optional">> \o @]
ZDefault(z, d) == [z EXCEPT !.wrap = <<"default">> \o @, !.def = d]

\* issues of an array whose items are all of kind v.s, checked against the
\* element schema named z.item
ItemIssues(z, v) ==
  IF v.n = 0 \/ z.item = "any" THEN <<>>
  ELSE IF z.item = "node"
       THEN IF v.s = "node" THEN <<>>
            ELSE IF v.s = "emptyobj"
                 THEN <<[path |-> <<"0", "name">>, msg |-> <<"Required">>],
                        [path |-> <<"0", "type">>, msg |-> <<"Required">>]>>
                 ELSE <<[path |-> <<"0">>,
                         msg |-> <<"Expected ", "object", ", received ", v.s>>]>>
       ELSE IF v.s = z.item THEN <<>>
            ELSE <<[path |-> <<"0">>,
                    msg |-> <<"Expected ", z.item, ", received ", v.s>>]>>

\* the checks of the unwrapped type on a value; every violated check is
\* reported
ParseBase(z, v) ==
  IF v.t = "undefined" THEN <<[path |-> <<>>, msg |-> <<"Required">>]>>
  ELSE IF z.kind = "enum"
  THEN IF v.t = "string" /\ v.s \in z.enum THEN <<>>
       ELSE <<[path |-> <<>>, msg |-> <<"Invalid enum value">>]>>
  ELSE IF v.t # z.kind
  THEN <<[path |-> <<>>, msg |-> <<"Expected ", z.kind, ", received ", v.t>>]>>
  ELSE IF z.kind = "string"
  THEN IF z.hasMin /\ z.min >= 1 /\ v.s = ""
       THEN <<[path |-> <<>>, msg |-> <<z.msg>>]>> ELSE <<>>
  ELSE IF z.kind = "number"
  THEN (IF z.hasMin /\ v.n < z.min
        THEN <<[path |-> <<>>,
                msg |-> <<"Number must be greater than or equal to ", ToString(z.min)>>]>>
        ELSE <<>>)
       \o
       (IF z.hasMax /\ v.n > z.max
        THEN <<[path |-> <<>>,
                msg |-> <<"Number must be less than or equal to ", ToString(z.max)>>]>>
        ELSE <<>>)
  ELSE IF z.kind = "array" THEN ItemIssues(z, v)
  ELSE <<>>

\* ZodOptional._parse returns undefined for an undefined input without
\* consulting the inner type; ZodDefault._parse substitutes the default.
RECURSIVE ZodParse(_, _)
ZodParse(z, v) ==
  IF z.wrap = <<>> THEN [issues |-> ParseBase(z, v), out |-> v]
  ELSE LET inner == [z EXCEPT !.wrap = Tail(@)] IN
       IF Head(z.wrap) = "optional"
       THEN IF v.t = "undefined" THEN [issues |-> <<>>, out |-> Undefined]
            ELSE ZodParse(inner, v)
       ELSE IF v.t = "undefined" THEN ZodParse(inner, z.def)
            ELSE ZodParse(inner, v)

\* an object schema is a sequence of <<key, schema>> pairs
Keys(shape) == {shape[i][1] : i \in DOMAIN shape}
SchemaOf(shape, k) == (CHOOSE i \in DOMAIN shape : shape[i][1] = k)

RECURSIVE ObjectIssues(_, _)
ObjectIssues(shape, o) ==
  IF shape = <<>> THEN <<>>
  ELSE LET k == Head(shape)[1]
           r == ZodParse(Head(shape)[2], Get(o, k))
           here == [i \in DOMAIN r.issues |->
                      [path |-> <<k>> \o r.issues[i].path, msg |-> r.issues[i].msg]]
       IN  here \o ObjectIssues(Tail(shape), o)

\* ZodObject._parse: unknown keys are stripped; a key is set in the output
\* when it is in the input or its parsed value is not undefined
ObjectOutput(shape, o) ==
  LET outOf(k) == ZodParse(shape[SchemaOf(shape, k)][2], Get(o, k)).out
      set == {k \in Keys(shape) : k \in DOMAIN o \/ outOf(k).t # "undefined"}
  IN  [k \in set |-> outOf(k)]

\* schema.parse(data) for an object schema: ok, or the ZodError issues
ObjectParse(shape, a) ==
  IF ~a.given
  THEN [ok |-> FALSE, issues |-> <<[path |-> <<>>, msg |-> <<"Required">>]>>,
        out |-> EmptyObj]
  ELSE LET is == ObjectIssues(shape, a.obj) IN
       [ok |-> is = <<>>, issues |-> is,
        out |-> IF is = <<>> THEN ObjectOutput(shape, a.obj) ELSE EmptyObj]

(***************************************************************************)
(* The zod schemas of dist/utils/validation.js and the inline schemas of   *)
(* the handlers of dist/server.js                                          *)
(***************************************************************************)
workflowIdSchema   == ZStringMin("Workflow ID is required")
executionIdSchema  == ZStringMin("Execution ID is required")
tagIdSchema        == ZStringMin("Tag ID is required")
variableIdSchema   == ZStringMin("Variable ID is required")
projectIdSchema    == ZStringMin("Project ID is required")
credentialIdSchema == ZStringMin("Credential ID is required")

\* (mutant) the page size without its range checks
LimitSchema_unchecked == ZOptional(ZDefault(ZNumber, Num(100)))

\* limit: z.number().min(1).max(250).default(100).optional()
LimitSchema == ZOptional(ZDefault(ZNumberRange(1, 250), Num(100)))

paginationSchema ==
  << <<"limit", LimitSchema>>, <<"cursor", ZOptional(ZString)>> >>

workflowListSchema ==
  << <<"active", ZOptional(ZBoolean)>>, <<"tags", ZOptional(ZString)>>,
     <<"name", ZOptional(ZString)>>, <<"projectId", ZOptional(ZString)>>,
     <<"excludePinnedData", ZOptional(ZBoolean)>> >> \o paginationSchema

workflowCreateSchema ==
  << <<"name", ZStringMin("Workflow name is required")>>,
     <<"nodes", ZDefault(ZOptional(ZArray("node")), Arr(0, "node"))>>,
     <<"connections", ZDefault(ZOptional(ZRecord), Obj)>>,
     <<"settings", ZDefault(ZOptional(ZRecord), Obj)>>,
     <<"tags", ZOptional(ZArray("string"))>>,
     <<"active", ZDefault(ZBoolean, Bool(FALSE))>> >>

\* workflowCreateSchema of src/utils/validation.ts: no defaults but the one
\* of active, which is inside its .optional()
workflowCreateSchemaTs ==
  << <<"name", ZStringMin("Workflow name is required")>>,
     <<"nodes", ZOptional(ZArray("node"))>>,
     <<"connections", ZOptional(ZRecord)>>,
     <<"settings", ZOptional(ZRecord)>>,
     <<"tags", ZOptional(ZArray("string"))>>,
     <<"active", ZOptional(ZDefault(ZBoolean, Bool(FALSE)))>> >>

executionListSchema ==
  << <<"includeData", ZOptional(ZBoolean)>>,
     <<"status", ZOptional(ZEnum({"error", "success", "waiting"}))>>,
     <<"workflowId", ZOptional(ZString)>>, <<"projectId", ZOptional(ZString)>> >>
  \o paginationSchema

tagCreateSchema == << <<"name", ZStringMin("Tag name is required")>> >>

variableCreateSchema ==
  << <<"key", ZStringMin("Variable key is required")>>,
     <<"value", ZStringMin("Variable value is required")>> >>

projectCreateSchema == << <<"name", ZStringMin("Project name is required")>> >>

credentialCreateSchema ==
  << <<"name", ZStringMin("Credential name is required")>>,
     <<"type", ZStringMin("Credential type is required")>>,
     <<"data", ZRecord>> >>

auditGenerateSchema == << <<"additionalOptions", ZOptional(ZRecord)>> >>

\* the inline pagination object of handleTagList, handleVariableList and
\* handleProjectList
InlineListSchema ==
  << <<"limit", ZOptional(ZDefault(ZNumberRange(1, 250), Num(100)))>>,
     <<"cursor", ZOptional(ZString)>> >>

IdOnly(idSchema) == << <<"id", idSchema>> >>

ListTools == {"workflow_list", "execution_list", "tag_list", "variable_list",
              "project_list"}

\* the schema each handler of dist/server.js hands to validateAndTransform
HandlerSchema(tool) ==
  CASE tool = "workflow_list" -> workflowListSchema
    [] tool = "workflow_get" ->
         IdOnly(workflowIdSchema) \o << <<"excludePinnedData", ZOptional(ZBoolean)>> >>
    [] tool = "workflow_create" -> workflowCreateSchema
    [] tool = "workflow_update" ->
         IdOnly(workflowIdSchema) \o
         << <<"name", ZOptional(ZString)>>, <<"nodes", ZOptional(ZArray("any"))>>,
            <<"connections", ZOptional(ZRecord)>>, <<"settings", ZOptional(ZRecord)>>,
            <<"active", ZOptional(ZBoolean)>> >>
    [] tool \in {"workflow_delete", "workflow_activate", "workflow_deactivate",
                 "workflow_tags_get"} -> IdOnly(workflowIdSchema)
    [] tool = "workflow_transfer" ->
         IdOnly(workflowIdSchema) \o << <<"destinationProjectId", ZString>> >>
    [] tool = "execution_list" -> executionListSchema
    [] tool = "execution_get" ->
         IdOnly(executionIdSchema) \o << <<"includeData", ZOptional(ZBoolean)>> >>
    [] tool = "execution_delete" -> IdOnly(executionIdSchema)
    [] tool \in {"tag_list", "variable_list", "project_list"} -> InlineListSchema
    [] tool = "tag_create" -> tagCreateSchema
    [] tool = "tag_update" -> IdOnly(tagIdSchema) \o << <<"name", ZString>> >>
    [] tool = "tag_delete" -> IdOnly(tagIdSchema)
    [] tool = "workflow_tags_update" ->
         IdOnly(workflowIdSchema) \o << <<"tagIds", ZArray("string")>> >>
    [] tool = "variable_create" -> variableCreateSchema
    [] tool = "variable_update" ->
         IdOnly(variableIdSchema) \o << <<"key", ZString>>, <<"value", ZString>> >>
    [] tool = "variable_delete" -> IdOnly(variableIdSchema)
    [] tool = "project_create" -> projectCreateSchema
    [] tool = "project_update" -> IdOnly(projectIdSchema) \o << <<"name", ZString>> >>
    [] tool = "project_delete" -> IdOnly(projectIdSchema)
    [] tool = "credential_create" -> credentialCreateSchema
    [] tool = "credential_delete" -> IdOnly(credentialIdSchema)
    [] tool = "credential_schema_get" -> << <<"credentialTypeName", ZString>> >>
    [] tool = "credential_transfer" ->
         IdOnly(credentialIdSchema) \o << <<"destinationProjectId", ZString>> >>
    [] tool = "audit_generate" -> auditGenerateSchema

\* the cases of the switch of the compiled dispatcher
DistTools ==
  {"workflow_list", "workflow_get", "workflow_create", "workflow_update",
   "workflow_delete", "workflow_activate", "workflow_deactivate",
   "workflow_transfer", "execution_list", "execution_get", "execution_delete",
   "tag_list", "tag_create", "tag_update", "tag_delete", "workflow_tags_get",
   "workflow_tags_update", "variable_list", "variable_create",
   "variable_update", "variable_delete", "project_list", "project_create",
   "project_update", "project_delete", "credential_create",
   "credential_delete", "credential_schema_get", "credential_transfer",
   "audit_generate"}

\* the cases of the switch of the source dispatcher
SrcTools == {"node_types_list", "node_type_info", "node_categories",
             "workflow_examples", "workflow_examples_search"}

(***************************************************************************)
(* validateAndTransform, createErrorResponse, createSuccessResponse        *)
(***************************************************************************)
\* (mutant) only the first issue is reported
FormatIssues_firstOnly(issues) ==
  IF issues = <<>> THEN <<>>
  ELSE Head(issues).path \o <<": ">> \o Head(issues).msg

RECURSIVE FormatIssues(_)
FormatIssues(issues) ==
  IF issues = <<>> THEN <<>>
  ELSE Head(issues).path \o <<": ">> \o Head(issues).msg
       \o (IF Len(issues) > 1 THEN <<", ">> ELSE <<>>)
       \o FormatIssues(Tail(issues))

\* returns the parsed object, or the message of the Error it throws
validateAndTransform(shape, a) ==
  LET r == ObjectParse(shape, a) IN
  IF r.ok THEN [threw |-> FALSE, out |-> r.out, message |-> <<>>]
  ELSE [threw |-> TRUE, out |-> EmptyObj,
        message |-> <<"Validation error: ">> \o FormatIssues(r.issues)]

TextResponse(text) == [content |-> <<[type |-> "text", text |-> text]>>]
createErrorResponse(message) == TextResponse(<<"Error: ">> \o message)
createSuccessResponse(message, data) ==
  TextResponse(<<"OK ">> \o message \o data)

IsFailure(r) == Len(r.content) = 1 /\ r.content[1].type = "text"
                /\ Len(r.content[1].text) > 0 /\ r.content[1].text[1] = "Error: "
TextOf(r) == r.content[1].text

(***************************************************************************)
(* N8nClient: one request per method.  A request is the method, the path   *)
(* under /api/v1, the query parameters and the JSON body; axios leaves     *)
(* undefined query parameters out of the URL.                              *)
(***************************************************************************)
Defined(o) == [k \in {j \in DOMAIN o : o[j].t # "undefined"} |-> o[k]]
Without(o, key) == [k \in DOMAIN o \ {key} |-> o[k]]
Only(o, keys) == [k \in keys |-> Get(o, k)]

Request(method, path, query, body) ==
  [method |-> method, path |-> path, query |-> Defined(query), body |-> body]

\* the call each handler makes on this.n8nClient with its validated params p
ClientCall(tool, p) ==
  LET id == Get(p, "id").s IN
  CASE tool = "workflow_list" -> Request("GET", <<"/workflows">>, p, EmptyObj)
    [] tool = "workflow_get" ->
         Request("GET", <<"/workflows/", id>>, Only(p, {"excludePinnedData"}), EmptyObj)
    [] tool = "workflow_create" -> Request("POST", <<"/workflows">>, EmptyObj, p)
    [] tool = "workflow_update" ->
         Request("PATCH", <<"/workflows/", id>>, EmptyObj, Without(p, "id"))
    [] tool = "workflow_delete" -> Request("DELETE", <<"/workflows/", id>>, EmptyObj, EmptyObj)
    [] tool = "workflow_activate" ->
         Request("POST", <<"/workflows/", id, "/activate">>, EmptyObj, EmptyObj)
    [] tool = "workflow_deactivate" ->
         Request("POST", <<"/workflows/", id, "/deactivate">>, EmptyObj, EmptyObj)
    [] tool = "workflow_transfer" ->
         Request("PUT", <<"/workflows/", id, "/transfer">>, EmptyObj,
                 Only(p, {"destinationProjectId"}))
    [] tool = "workflow_tags_get" ->
         Request("GET", <<"/workflows/", id, "/tags">>, EmptyObj, EmptyObj)
    [] tool = "workflow_tags_update" ->
         Request("PUT", <<"/workflows/", id, "/tags">>, EmptyObj, Only(p, {"tagIds"}))
    [] tool = "execution_list" -> Request("GET", <<"/executions">>, p, EmptyObj)
    [] tool = "execution_get" ->
         Request("GET", <<"/executions/", id>>, Only(p, {"includeData"}), EmptyObj)
    [] tool = "execution_delete" -> Request("DELETE", <<"/executions/", id>>, EmptyObj, EmptyObj)
    [] tool = "tag_list" -> Request("GET", <<"/tags">>, p, EmptyObj)
    [] tool = "tag_create" -> Request("POST", <<"/tags">>, EmptyObj, Only(p, {"name"}))
    [] tool = "tag_update" -> Request("PUT", <<"/tags/", id>>, EmptyObj, Only(p, {"name"}))
    [] tool = "tag_delete" -> Request("DELETE", <<"/tags/", id>>, EmptyObj, EmptyObj)
    [] tool = "variable_list" -> Request("GET", <<"/variables">>, p, EmptyObj)
    [] tool = "variable_create" ->
         Request("POST", <<"/variables">>, EmptyObj, Only(p, {"key", "value"}))
    [] tool = "variable_update" ->
         Request("PUT", <<"/variables/", id>>, EmptyObj, Only(p, {"key", "value"}))
    [] tool = "variable_delete" -> Request("DELETE", <<"/variables/", id>>, EmptyObj, EmptyObj)
    [] tool = "project_list" -> Request("GET", <<"/projects">>, p, EmptyObj)
    [] tool = "project_create" -> Request("POST", <<"/projects">>, EmptyObj, Only(p, {"name"}))
    [] tool = "project_update" -> Request("PUT", <<"/projects/", id>>, EmptyObj, Only(p, {"name"}))
    [] tool = "project_delete" -> Request("DELETE", <<"/projects/", id>>, EmptyObj, EmptyObj)
    [] tool = "credential_create" ->
         Request("POST", <<"/credentials">>, EmptyObj, Only(p, {"name", "type", "data"}))
    [] tool = "credential_delete" -> Request("DELETE", <<"/credentials/", id>>, EmptyObj, EmptyObj)
    [] tool = "credential_schema_get" ->
         Request("GET", <<"/credentials/schema/", Get(p, "credentialTypeName").s>>,
                 EmptyObj, EmptyObj)
    [] tool = "credential_transfer" ->
         Request("PUT", <<"/credentials/", id, "/transfer">>, EmptyObj,
                 Only(p, {"destinationProjectId"}))
    [] tool = "audit_generate" -> Request("POST", <<"/audit">>, EmptyObj, p)

(***************************************************************************)
(* What comes back from the remote API: a 2xx response with a body, a      *)
(* response with an error status, or no response at all.                   *)
(***************************************************************************)
NoBody == [nul |-> TRUE, hasData |-> FALSE, n |-> 0, cursor |-> "", complete |-> FALSE,
           runData |-> <<>>, topError |-> FALSE]
\* nul: the body is null; hasData: the data array (or the array body) is
\* there; n: its length; cursor: nextCursor ("" when absent); complete: the
\* fields the formatter reads are there
\* nextCursor values of the remote API; "" stands for an absent one
Cursors == {"", "Cur-A1"}

Bodies ==
  {NoBody}
  \cup {[nul |-> FALSE, hasData |-> FALSE, n |-> 0, cursor |-> c, complete |-> k,
           runData |-> <<>>, topError |-> FALSE]
          : c \in Cursors, k \in BOOLEAN}
  \cup {[nul |-> FALSE, hasData |-> TRUE, n |-> n, cursor |-> c, complete |-> k,
           runData |-> <<>>, topError |-> FALSE]
          : n \in 0..MaxItems, c \in Cursors, k \in BOOLEAN}

\* execution.data.resultData.runData of an execution fetched with its data:
\* per node, in the order of the object's keys, the runs of the node; a run
\* has an error with a message, or output items
RunOk(items) == [failed |-> FALSE, message |-> "", items |-> items]
RunFailed(message) == [failed |-> TRUE, message |-> message, items |-> 0]
NodeRuns(node, runs) == [node |-> node, runs |-> runs]

RunDatas ==
  { <<NodeRuns("Fetch", <<RunOk(2)>>)>>,
    <<NodeRuns("Fetch", <<RunOk(2)>>), NodeRuns("Send", <<RunFailed("boom")>>)>>,
    <<NodeRuns("Send", <<RunOk(0), RunFailed("429 from upstream")>>)>>,
    <<NodeRuns("Send", <<RunFailed("boom"), RunOk(1)>>),
      NodeRuns("Fetch", <<RunOk(1), RunOk(2)>>)>> }

\* bodies of GET /executions/{id}; topError: the execution has status
\* 'error' and resultData.error is set
ExecutionBodies ==
  {[nul |-> FALSE, hasData |-> FALSE, n |-> 0, cursor |-> "", complete |-> TRUE,
    runData |-> rd, topError |-> e] : rd \in RunDatas, e \in BOOLEAN}

ErrorStatuses == {400, 401, 403, 404, 429, 500}
NoResponseCauses == {"timeout of 30000ms exceeded", "connect ECONNREFUSED"}

OkReply(b) == [kind |-> "ok", status |-> 200, msg |-> "", cause |-> "", body |-> b]
HttpError(st, m) == [kind |-> "http", status |-> st, msg |-> m, cause |-> "", body |-> NoBody]
NoResponse(c) == [kind |-> "none", status |-> 0, msg |-> "", cause |-> c, body |-> NoBody]
NoReply == [kind |-> "pending", status |-> 0, msg |-> "", cause |-> "", body |-> NoBody]

Replies ==
  {OkReply(b) : b \in Bodies}
  \cup {HttpError(st, m) : st \in ErrorStatuses, m \in {"", "remote says no"}}
  \cup {NoResponse(c) : c \in NoResponseCauses}

\* the replies to the request of a tool
RepliesTo(tool) ==
  Replies \cup (IF tool = "execution_get"
                THEN {OkReply(b) : b \in ExecutionBodies} ELSE {})

\* error.message of the AxiosError
AxiosMessage(r) ==
  IF r.kind = "http" THEN "Request failed with status code " ELSE r.cause

\* (mutant) the switch without its case 404
handleApiError_no404(r) ==
  IF r.kind = "http"
  THEN LET message == IF r.msg # "" THEN <<r.msg>>
                      ELSE <<AxiosMessage(r), ToString(r.status)>>
       IN CASE r.status = 401 -> <<"Authentication failed. Check your API key.">>
            [] r.status = 403 -> <<"Insufficient permissions for this operation.">>
            [] r.status = 429 -> <<"Rate limit exceeded. Please retry later.">>
            [] OTHER -> <<"API Error (", ToString(r.status), "): ">> \o message
  ELSE <<"Network Error: ", AxiosMessage(r)>>

\* (mutant) the status switch applied without the test of error.response
handleApiError_noResponseTest(r) ==
  LET message == IF r.msg # "" THEN <<r.msg>> ELSE <<AxiosMessage(r)>>
  IN CASE r.status = 401 -> <<"Authentication failed. Check your API key.">>
       [] r.status = 403 -> <<"Insufficient permissions for this operation.">>
       [] r.status = 404 -> <<"Resource not found.">>
       [] r.status = 429 -> <<"Rate limit exceeded. Please retry later.">>
       [] OTHER -> <<"API Error (", IF r.kind = "http" THEN ToString(r.status)
                                    ELSE "undefined", "): ">> \o message

\* the message of the Error that handleApiError returns
handleApiError(r) ==
  IF r.kind = "http"
  THEN LET message == IF r.msg # "" THEN <<r.msg>>
                      ELSE <<AxiosMessage(r), ToString(r.status)>>
       IN CASE r.status = 401 -> <<"Authentication failed. Check your API key.">>
            [] r.status = 403 -> <<"Insufficient permissions for this operation.">>
            [] r.status = 404 -> <<"Resource not found.">>
            [] r.status = 429 -> <<"Rate limit exceeded. Please retry later.">>
            [] OTHER -> <<"API Error (", ToString(r.status), "): ">> \o message
  ELSE <<"Network Error: ", AxiosMessage(r)>>

\* the response interceptor: a fulfilled response passes, anything else is
\* rejected with handleApiError's Error
ResponseInterceptor(r) ==
  IF r.kind = "ok" THEN [rejected |-> FALSE, message |-> <<>>, data |-> r.body]
  ELSE [rejected |-> TRUE, message |-> handleApiError(r), data |-> NoBody]

\* parseInt(process.env.MAX_RETRY_ATTEMPTS || '3'), stored in the client's
\* config.retries
MAX_RETRY_ATTEMPTS == 3

\* (mutant) a failed request is sent again until config.retries is used up
FurtherRequests_retry(req, r, sent) ==
  IF r.kind # "ok" /\ sent <= MAX_RETRY_ATTEMPTS THEN <<req>> ELSE <<>>

\* the requests a client method sends after the reply r to its request req,
\* having sent `sent` requests so far: none, each method awaits one
\* this.client call and returns response.data (or rejects)
FurtherRequests(req, r, sent) == <<>>

(***************************************************************************)
(* The formatting half of each handler of dist/server.js, run on the body  *)
(* of a fulfilled call.  It returns the response, or the message of the    *)
(* TypeError it throws.                                                    *)
(***************************************************************************)
Threw(message) == [threw |-> TRUE, message |-> message, resp |-> TextResponse(<<>>)]
Returned(resp) == [threw |-> FALSE, message |-> <<>>, resp |-> resp]

ListNoun(tool) ==
  CASE tool = "workflow_list" -> " workflows"
    [] tool = "execution_list" -> " executions"
    [] tool = "tag_list" -> " tags"
    [] tool = "variable_list" -> " variables"
    [] tool = "project_list" -> " projects"

\* the summary block of one item of a page
ItemSummary(tool, b) ==
  CASE tool = "workflow_list" ->
         <<"name: ", IF b.complete THEN "item name" ELSE "undefined",
           "Tags: ", IF b.complete THEN "tag name" ELSE "None",
           "Created: ", IF b.complete THEN "date" ELSE "Unknown">>
    [] tool = "execution_list" ->
         <<"Execution ", IF b.complete THEN "item id" ELSE "undefined",
           "Duration: ", IF b.complete THEN "seconds" ELSE "N/A">>
    [] tool = "tag_list" ->
         <<"name: ", IF b.complete THEN "item name" ELSE "undefined",
           "Created: ", IF b.complete THEN "date" ELSE "Unknown">>
    [] tool = "variable_list" -> <<"key: ", "item key", "Value: ", "item value">>
    [] tool = "project_list" ->
         <<"name: ", IF b.complete THEN "item name" ELSE "undefined",
           "Type: ", IF b.complete THEN "item type" ELSE "Standard">>

RECURSIVE Repeat(_, _)
Repeat(block, n) == IF n = 0 THEN <<>> ELSE block \o Repeat(block, n - 1)

\* (mutant) the cursor is echoed in lower case
CursorNote_lowered(b) ==
  IF b.cursor # "" THEN <<"Next cursor: ", "cur-a1">> ELSE <<>>

\* (mutant) the note is written whether or not there is a next page
CursorNote_always(b) == <<"Next cursor: ", b.cursor>>

CursorNote(b) == IF b.cursor # "" THEN <<"Next cursor: ", b.cursor>> ELSE <<>>

FormatList(tool, b) ==
  IF b.nul THEN Threw(<<"Cannot read properties of null (reading 'data')">>)
  ELSE IF ~b.hasData
  THEN Threw(<<"Cannot read properties of undefined (reading 'map')">>)
  ELSE IF tool = "variable_list" /\ b.n > 0 /\ ~b.complete
  THEN Threw(<<"Cannot read properties of undefined (reading 'length')">>)
  ELSE Returned(createSuccessResponse(
         <<"Found ", ToString(b.n), ListNoun(tool)>>,
         Repeat(ItemSummary(tool, b), b.n) \o CursorNote(b)))

EntityTools == {"workflow_get", "workflow_create", "workflow_update",
                "workflow_delete", "workflow_activate", "workflow_deactivate",
                "execution_delete", "tag_create", "tag_update",
                "tag_delete", "credential_create", "credential_delete"}
ArrayTools == {"workflow_tags_get", "workflow_tags_update"}
VoidTools == {"workflow_transfer", "variable_create", "variable_update",
              "variable_delete", "project_create", "project_update",
              "project_delete", "credential_transfer"}

\* the first property a handler reads of the entity the client returned
FirstRead(tool) ==
  CASE tool = "execution_get" -> "data"
    [] tool = "execution_delete" -> "id"
    [] tool = "workflow_get" -> "nodes"
    [] OTHER -> "name"

FormatEntity(tool, p, b) ==
  IF b.nul
  THEN Threw(<<"Cannot read properties of null (reading '", FirstRead(tool), "')">>)
  ELSE Returned(createSuccessResponse(
         <<tool, ": ", IF b.complete THEN "entity name" ELSE "undefined">>, <<>>))

RECURSIVE Flatten(_)
Flatten(seqs) == IF seqs = <<>> THEN <<>> ELSE Head(seqs) \o Flatten(Tail(seqs))

\* (mutant) the run is numbered by its array index
RunLine_zeroBased(run, index) ==
  IF run.failed
  THEN <<"    Run ", ToString(index), ": ERROR - ", run.message>>
  ELSE <<"    Run ", ToString(index), ": SUCCESS - ", ToString(run.items), " items">>

\* the line of nodeRuns.forEach((run, index) => ...)
RunLine(run, index) ==
  IF run.failed
  THEN <<"    Run ", ToString(index + 1), ": ERROR - ", run.message>>
  ELSE <<"    Run ", ToString(index + 1), ": SUCCESS - ", ToString(run.items), " items">>

\* the lines of one entry of Object.entries(nodeExecutions)
NodeLines(e) ==
  <<"  * ", e.node, ": ", ToString(Len(e.runs)), " run(s)">>
  \o Flatten([k \in DOMAIN e.runs |-> RunLine(e.runs[k], k - 1)])

\* handleExecutionGet after its await
FormatExecution(p, b) ==
  IF b.nul THEN Threw(<<"Cannot read properties of null (reading 'data')">>)
  ELSE Returned(createSuccessResponse(
         <<"Execution details retrieved">>,
         <<"Execution ", IF b.complete THEN "item id" ELSE "undefined",
           "Nodes executed: ", ToString(Len(b.runData))>>
         \o (IF b.topError THEN <<"Error Details:", "json">> ELSE <<>>)
         \o (IF Len(b.runData) > 0
             THEN <<"Node Execution Summary:">>
                  \o Flatten([k \in DOMAIN b.runData |-> NodeLines(b.runData[k])])
             ELSE <<>>)))

FormatArray(tool, b) ==
  IF b.nul THEN Threw(<<"Cannot read properties of null (reading 'map')">>)
  ELSE IF ~b.hasData THEN Threw(<<"tags.map is not a function">>)
  ELSE Returned(createSuccessResponse(
         <<tool>>, IF b.n = 0 THEN <<"No tags">> ELSE Repeat(<<"tag name">>, b.n)))

FormatVoid(tool, p) ==
  Returned(createSuccessResponse(
    <<tool>>,
    IF tool \in {"workflow_transfer", "credential_transfer"}
    THEN <<Get(p, "destinationProjectId").s>>
    ELSE IF tool \in {"variable_create", "variable_update"} THEN <<Get(p, "key").s>>
    ELSE IF tool \in {"project_create", "project_update"} THEN <<Get(p, "name").s>>
    ELSE <<>>))

FormatAudit(b) ==
  IF b.nul THEN Threw(<<"Cannot convert undefined or null to object">>)
  ELSE Returned(createSuccessResponse(<<"Security audit completed">>,
                                      <<"Security Audit Report">>))

Format(tool, p, b) ==
  CASE tool \in ListTools -> FormatList(tool, b)
    [] tool \in EntityTools -> FormatEntity(tool, p, b)
    [] tool = "execution_get" -> FormatExecution(p, b)
    [] tool \in ArrayTools -> FormatArray(tool, b)
    [] tool \in VoidTools -> FormatVoid(tool, p)
    [] tool = "credential_schema_get" ->
         Returned(createSuccessResponse(
           <<"Schema for credential type ", Get(p, "credentialTypeName").s>>,
           <<"json">>))
    [] tool = "audit_generate" -> FormatAudit(b)

(***************************************************************************)
(* The input schemas advertised by the ListTools handler (JSON Schema).    *)
(* A property is its type with the keywords the listing gives it.          *)
(***************************************************************************)
Prop(type) == [type |-> type, enum |-> {}, hasRange |-> FALSE, minimum |-> 0,
               maximum |-> 0, minLength |-> 0, items |-> "any"]
PStr  == Prop("string")
PNum  == Prop("number")
PBool == Prop("boolean")
PObj  == Prop("object")
PArr(items) == [Prop("array") EXCEPT !.items = items]
PEnum(vals) == [Prop("string") EXCEPT !.enum = vals]
\* { type: "number", minimum: 1, maximum: 250, default: 100 }
PLimit == [Prop("number") EXCEPT !.hasRange = TRUE, !.minimum = 1, !.maximum = 250]

Props(pairs) == [k \in {pairs[i][1] : i \in DOMAIN pairs} |->
                   pairs[CHOOSE i \in DOMAIN pairs : pairs[i][1] = k][2]]
Tool(pairs, required) == [props |-> Props(pairs), required |-> required]

IdTool == Tool(<< <<"id", PStr>> >>, {"id"})
PageTool == Tool(<< <<"limit", PLimit>>, <<"cursor", PStr>> >>, {})

\* the listing of dist/server.js
DistAdvertised(tool) ==
  CASE tool = "workflow_list" ->
         Tool(<< <<"active", PBool>>, <<"tags", PStr>>, <<"name", PStr>>,
                 <<"projectId", PStr>>, <<"excludePinnedData", PBool>>,
                 <<"limit", PLimit>>, <<"cursor", PStr>> >>, {})
    [] tool = "workflow_get" ->
         Tool(<< <<"id", PStr>>, <<"excludePinnedData", PBool>> >>, {"id"})
    [] tool = "workflow_create" ->
         Tool(<< <<"name", PStr>>, <<"nodes", PArr("node")>>, <<"connections", PObj>>,
                 <<"settings", PObj>>, <<"tags", PArr("string")>>,
                 <<"active", PBool>> >>, {"name"})
    [] tool = "workflow_update" ->
         Tool(<< <<"id", PStr>>, <<"name", PStr>>, <<"nodes", PArr("any")>>,
                 <<"connections", PObj>>, <<"settings", PObj>>,
                 <<"active", PBool>> >>, {"id"})
    [] tool \in {"workflow_delete", "workflow_activate", "workflow_deactivate",
                 "execution_delete", "tag_delete", "workflow_tags_get",
                 "variable_delete", "project_delete", "credential_delete"} -> IdTool
    [] tool \in {"workflow_transfer", "credential_transfer"} ->
         Tool(<< <<"id", PStr>>, <<"destinationProjectId", PStr>> >>,
              {"id", "destinationProjectId"})
    [] tool = "execution_list" ->
         Tool(<< <<"includeData", PBool>>,
                 <<"status", PEnum({"error", "success", "waiting"})>>,
                 <<"workflowId", PStr>>, <<"projectId", PStr>>,
                 <<"limit", PLimit>>, <<"cursor", PStr>> >>, {})
    [] tool = "execution_get" ->
         Tool(<< <<"id", PStr>>, <<"includeData", PBool>> >>, {"id"})
    [] tool \in {"tag_list", "variable_list", "project_list"} -> PageTool
    [] tool \in {"tag_create", "project_create"} -> Tool(<< <<"name", PStr>> >>, {"name"})
    [] tool \in {"tag_update", "project_update"} ->
         Tool(<< <<"id", PStr>>, <<"name", PStr>> >>, {"id", "name"})
    [] tool = "workflow_tags_update" ->
         Tool(<< <<"id", PStr>>, <<"tagIds", PArr("string")>> >>, {"id", "tagIds"})
    [] tool = "variable_create" ->
         Tool(<< <<"key", PStr>>, <<"value", PStr>> >>, {"key", "value"})
    [] tool = "variable_update" ->
         Tool(<< <<"id", PStr>>, <<"key", PStr>>, <<"value", PStr>> >>,
              {"id", "key", "value"})
    [] tool = "credential_create" ->
         Tool(<< <<"name", PStr>>, <<"type", PStr>>, <<"data", PObj>> >>,
              {"name", "type", "data"})
    [] tool = "credential_schema_get" ->
         Tool(<< <<"credentialTypeName", PStr>> >>, {"credentialTypeName"})
    [] tool = "audit_generate" -> Tool(<< <<"additionalOptions", PObj>> >>, {})

NODE_CATEGORIES == {"Core", "Communication", "Productivity", "Data & Storage",
                    "Sales", "AI", "Marketing", "Development", "Finance"}

\* the listing of src/server.ts, for the tools its dispatcher handles
SrcAdvertised(tool) ==
  CASE tool = "node_types_list" ->
         Tool(<< <<"category", PEnum(NODE_CATEGORIES)>>, <<"search", PStr>> >>, {})
    [] tool = "node_type_info" -> Tool(<< <<"nodeType", PStr>> >>, {"nodeType"})
    [] tool = "node_categories" -> Tool(<<>>, {})
    [] tool = "workflow_examples" ->
         Tool(<< <<"useCase", PEnum({"simple-webhook", "scheduled-task",
                                     "data-processing", "notification",
                                     "api-integration"})>> >>, {})
    [] tool = "workflow_examples_search" ->
         Tool(<< <<"nodeTypes", PArr("string")>>, <<"keywords", PArr("string")>>,
                 <<"maxExamples", [Prop("number") EXCEPT !.hasRange = TRUE,
                                    !.minimum = 1, !.maximum = 5]>>,
                 <<"includeFullWorkflow", PBool>> >>, {})

\* the names the listing of src/server.ts returns without a case in its
\* dispatcher
SrcUnhandledTools ==
  DistTools \cup {"user_list", "user_get", "user_create", "user_delete",
                  "user_role_change", "source_control_pull", "tag_get"}

Listed(bld) == IF bld = "dist" THEN DistTools ELSE SrcTools \cup SrcUnhandledTools
Advertised(bld, tool) ==
  IF bld = "dist" THEN DistAdvertised(tool) ELSE SrcAdvertised(tool)

\* a value satisfies an advertised property
SatisfiesProp(pr, v) ==
  /\ v.t = pr.type
  /\ pr.enum # {} => v.s \in pr.enum
  /\ pr.hasRange => (pr.minimum <= v.n /\ v.n <= pr.maximum)
  /\ (pr.type = "string" /\ pr.minLength > 0) => v.s # ""
  /\ (pr.type = "array" /\ pr.items # "any" /\ v.n > 0) => v.s = pr.items

\* an argument object satisfies an advertised input schema
Satisfies(adv, a) ==
  /\ a.given
  /\ adv.required \subseteq DOMAIN a.obj
  /\ \A k \in DOMAIN a.obj \cap DOMAIN adv.props : SatisfiesProp(adv.props[k], a.obj[k])

(***************************************************************************)
(* The examples directory of handleWorkflowExamplesSearch.  The strings    *)
(* the search compares (file names, workflow names, node types, keywords)  *)
(* are sequences of atoms, and a string includes another when the other    *)
(* is a contiguous run of its atoms.                                       *)
(***************************************************************************)
Lower(atom) ==
  CASE atom = "Slack" -> "slack"
    [] atom = "Daily" -> "daily"
    [] atom = ".JSON" -> ".json"
    [] OTHER -> atom

\* String.prototype.toLowerCase
toLowerCase(str) == [i \in DOMAIN str |-> Lower(str[i])]

\* String.prototype.includes
includes(str, part) ==
  \E i \in 0..(Len(str) - Len(part)) : SubSeq(str, i + 1, i + Len(part)) = part

\* String.prototype.endsWith
endsWith(str, part) ==
  Len(str) >= Len(part) /\ SubSeq(str, Len(str) - Len(part) + 1, Len(str)) = part

SlackType  == <<"n8n-nodes-base.", "slack">>
OpenAiType == <<"n8n-nodes-base.", "openAi">>
WebhookType == <<"n8n-nodes-base.", "webhook">>

Node(n, type) == [name |-> n, type |-> type]

\* a directory entry: its name, what reading it gives (read: "ok" or
\* "error"; content: "blank", "garbage", JSON "null" or a JSON "object"),
\* and for an object its name (named), its nodes (nodesKind: "absent",
\* "array" or "other") and the node names its connections are keyed by
ExampleFile(file, read, content) ==
  [file |-> file, read |-> read, content |-> content, named |-> FALSE,
   wfName |-> <<>>, nodesKind |-> "absent", nodes |-> <<>>,
   hasConnections |-> FALSE, connections |-> {}]

Workflow(file, wfName, nodes, connections) ==
  [file |-> file, read |-> "ok", content |-> "object", named |-> TRUE,
   wfName |-> wfName, nodesKind |-> "array", nodes |-> nodes,
   hasConnections |-> TRUE, connections |-> connections]

\* entries of different kinds, in the order readdirSync lists them
Fixtures ==
  << Workflow(<<"Daily", "-report", ".JSON">>, <<"Daily", " report">>,
              <<Node("Slack", SlackType), Node("AI", OpenAiType)>>, {"AI"}),
     ExampleFile(<<"blank", ".json">>, "ok", "blank"),
     ExampleFile(<<"broken", ".json">>, "ok", "garbage"),
     Workflow(<<"chat", ".json">>, <<"chat", " bot">>,
              <<Node("Hook", WebhookType), Node("AI", OpenAiType)>>, {"Hook"}),
     ExampleFile(<<"locked", ".json">>, "error", "object"),
     ExampleFile(<<"notes", ".txt">>, "ok", "garbage"),
     ExampleFile(<<"null", ".json">>, "ok", "null"),
     [ExampleFile(<<"odd", ".json">>, "ok", "object") EXCEPT !.nodesKind = "other"],
     ExampleFile(<<"plain", ".json">>, "ok", "object"),
     Workflow(<<"slack", "-alert", ".json">>, <<"Slack", " alert">>,
              <<Node("Hook", WebhookType), Node("Notify", SlackType)>>,
              {"Hook", "Notify"}),
     Workflow(<<"slack", "-digest", ".json">>, <<"digest">>,
              <<Node("Notify", SlackType)>>, {}),
     Workflow(<<"webhook", ".json">>, <<"hook">>, <<>>, {}) >>

\* number of further workflow files, enough to have more JSON entries than
\* one search goes through
BulkFiles == 12
Bulk ==
  [i \in 1..BulkFiles |->
     Workflow(<<"zz-", ToString(i), ".json">>, <<"bulk ", ToString(i)>>,
              <<Node("Notify", SlackType)>>, {})]

\* the entries an examples directory may hold, in the order readdirSync
\* lists them
Catalogue == Fixtures \o Bulk

\* largest number of entries of a directory that is neither all the
\* fixtures nor the whole catalogue
MaxDirFiles == 2

\* examples/workflows as the search finds it: the entries are indexes into
\* the catalogue
Dir(state, entries) == [state |-> state, entries |-> entries]
NoDir == Dir("missing", {})
Directories ==
  {NoDir, Dir("unreadable", {})}
  \cup {Dir("listed", S) : S \in {T \in SUBSET DOMAIN Fixtures :
                                   Cardinality(T) <= MaxDirFiles}}
  \cup {Dir("listed", DOMAIN Fixtures), Dir("listed", DOMAIN Catalogue)}

\* fs.readdirSync(examplesDir)
readdirSync(dir) ==
  SelectSeq([i \in DOMAIN Catalogue |-> i], LAMBDA i : i \in dir.entries)

\* an array of strings with its items
StrArr(items) == [t |-> "array", s |-> "string", n |-> Len(items), items |-> items]

(***************************************************************************)
(* The invocations the transport delivers: a tool name, and arguments that *)
(* are absent or an object that differs from a valid minimal object in at  *)
(* most MaxArgFields properties (left out, added, or given another value   *)
(* of the right or of a wrong kind).                                       *)
(***************************************************************************)
UnknownNames == {"bogus_tool"}

Candidates(pr) ==
  CASE pr.type = "string" /\ pr.enum # {} ->
         {Str(CHOOSE e \in pr.enum : TRUE), Str("bogus")}
    [] pr.type = "string" /\ pr.enum = {} -> {Str(""), Str("a"), Num(7)}
    [] pr.type = "number" /\ pr.hasRange ->
         {Num(pr.minimum - 1), Num(pr.minimum), Num(pr.maximum),
          Num(pr.maximum + 1), Str("a")}
    [] pr.type = "number" /\ ~pr.hasRange -> {Num(7), Str("a")}
    [] pr.type = "boolean" -> {Bool(TRUE), Str("a")}
    [] pr.type = "array" ->
         {Arr(0, pr.items), Arr(1, pr.items),
          Arr(1, IF pr.items = "node" THEN "emptyobj" ELSE "number")}
    [] pr.type = "object" -> {Obj, Str("a")}

\* a value of the advertised kind
ValidValue(pr) ==
  CASE pr.type = "string" /\ pr.enum # {} -> Str(CHOOSE e \in pr.enum : TRUE)
    [] pr.type = "string" /\ pr.enum = {} -> Str("a")
    [] pr.type = "number" /\ pr.hasRange -> Num(pr.minimum)
    [] pr.type = "number" /\ ~pr.hasRange -> Num(7)
    [] pr.type = "boolean" -> Bool(TRUE)
    [] pr.type = "array" -> Arr(1, pr.items)
    [] pr.type = "object" -> Obj

\* the object with exactly the required properties, each with a valid value
BaseObject(adv) == [k \in adv.required |-> ValidValue(adv.props[k])]

AllValues(adv) ==
  {Undefined} \cup UNION {Candidates(adv.props[k]) : k \in DOMAIN adv.props}

\* base with the properties of d set to (or, for Undefined, removed as) d says
Override(base, d) ==
  LET keys == {k \in DOMAIN base \cup DOMAIN d :
                 IF k \in DOMAIN d THEN d[k].t # "undefined" ELSE TRUE}
  IN  [k \in keys |-> IF k \in DOMAIN d THEN d[k] ELSE base[k]]

\* the objects that differ from the base object in at most MaxArgFields
\* properties
ObjectsOf(adv) ==
  LET base == BaseObject(adv) IN
  UNION {{Override(base, d) :
            d \in {e \in [S -> AllValues(adv)] :
                     \A k \in S : /\ e[k] \in Candidates(adv.props[k]) \cup {Undefined}
                                  /\ e[k] # Get(base, k)}}
           : S \in {T \in SUBSET DOMAIN adv.props : Cardinality(T) <= MaxArgFields}}

\* searches for node types and keywords that the catalogue's files have or
\* lack
NodeTypeQueries == {StrArr(<<>>), StrArr(<< <<"slack">> >>), StrArr(<<OpenAiType>>),
                    StrArr(<< <<"slack">>, <<"gmail">> >>),
                    StrArr(<< SlackType \o <<"Trigger">> >>)}
KeywordQueries == {StrArr(<< <<"Slack">> >>), StrArr(<< <<"daily">>, <<"chat">> >>),
                   StrArr(<< <<"invoice">> >>)}
SearchArgs ==
  {ArgsOf(Defined([nodeTypes |-> nt, keywords |-> kw, maxExamples |-> mx,
                   includeFullWorkflow |-> full])) :
     nt \in NodeTypeQueries \cup {Undefined},
     kw \in KeywordQueries \cup {Undefined},
     mx \in {Undefined, Num(1), Num(6)},
     full \in {Undefined, Bool(TRUE)}}

ArgCases(bld, tool) ==
  IF (bld = "dist" /\ tool \in DistTools) \/ (bld = "src" /\ tool \in SrcTools)
  THEN {NoArgs} \cup {ArgsOf(o) : o \in ObjectsOf(Advertised(bld, tool))}
       \cup (IF tool = "workflow_examples_search" THEN SearchArgs ELSE {})
  ELSE {NoArgs, ArgsOf(EmptyObj)}
       \cup (IF tool = "workflow_create" THEN {ArgsOf([name |-> Str("a")])} ELSE {})

(***************************************************************************)
(* The local handlers of src/server.ts                                     *)
(***************************************************************************)
\* node type -> category
CORE_NODES ==
  [t \in {"n8n-nodes-base.manualTrigger", "n8n-nodes-base.webhook",
          "n8n-nodes-base.schedulerigger", "n8n-nodes-base.code",
          "n8n-nodes-base.httpRequest", "n8n-nodes-base.set", "n8n-nodes-base.if",
          "n8n-nodes-base.switch", "n8n-nodes-base.merge",
          "n8n-nodes-base.splitInBatches", "n8n-nodes-base.wait",
          "n8n-nodes-base.noOp", "n8n-nodes-base.stopAndError"} |-> "Core"]
  @@ [t \in {"n8n-nodes-base.gmail", "n8n-nodes-base.slack",
             "n8n-nodes-base.telegram", "n8n-nodes-base.discord"} |-> "Communication"]
  @@ [t \in {"n8n-nodes-base.googleSheets", "n8n-nodes-base.notion",
             "n8n-nodes-base.airtable"} |-> "Productivity"]
  @@ [t \in {"n8n-nodes-base.mysql", "n8n-nodes-base.postgres"} |-> "Data & Storage"]
  @@ [t \in {"n8n-nodes-base.hubspot"} |-> "Sales"]
  @@ [t \in {"n8n-nodes-base.openai"} |-> "AI"]

Truthy(v) == ~(v.t = "undefined" \/ (v.t = "string" /\ v.s = "")
               \/ (v.t = "number" /\ v.n = 0) \/ (v.t = "boolean" /\ v.s = "false"))

\* the text JavaScript gives a value inside a template string
Show(v) == CASE v.t = "undefined" -> "undefined"
             [] v.t = "string" -> v.s
             [] v.t = "number" -> ToString(v.n)
             [] v.t = "boolean" -> v.s
             [] v.t = "array" -> "array"
             [] v.t = "object" -> "[object Object]"

\* const { x } = args with args undefined
DestructureError(key) ==
  Threw(<<"Cannot destructure property '", key, "' of 'args' as it is undefined.">>)

handleNodeTypesList(a) ==
  IF ~a.given THEN DestructureError("category")
  ELSE LET category == Get(a.obj, "category")
           search == Get(a.obj, "search")
           byCategory == {t \in DOMAIN CORE_NODES :
                            Truthy(category) =>
                              (category.t = "string" /\ CORE_NODES[t] = category.s)}
       IN IF Truthy(search) /\ search.t # "string"
          THEN Threw(<<"search.toLowerCase is not a function">>)
          ELSE Returned(TextResponse(
                 <<"totalNodes: ",
                   IF Truthy(search) THEN "filtered" ELSE ToString(Cardinality(byCategory)),
                   "availableCategories">>))

handleNodeTypeInfo(a) ==
  IF ~a.given THEN DestructureError("nodeType")
  ELSE LET nodeType == Get(a.obj, "nodeType") IN
       IF nodeType.t = "string" /\ nodeType.s \in DOMAIN CORE_NODES
       THEN Returned(TextResponse(<<"nodeType: ", nodeType.s, "category: ",
                                    CORE_NODES[nodeType.s], "exampleUsage">>))
       ELSE Returned(TextResponse(
              <<"Node type \"", Show(nodeType), "\" not found in built-in nodes.",
                "Available node types:",
                "You can also use node_types_list to browse nodes by category.">>))

handleNodeCategories(a) == Returned(TextResponse(<<"categories">>))

WorkflowExampleKeys == {"simple-webhook", "scheduled-task", "data-processing",
                        "notification", "api-integration"}

handleWorkflowExamples(a) ==
  IF ~a.given THEN DestructureError("useCase")
  ELSE LET useCase == Get(a.obj, "useCase") IN
       IF useCase.t = "string" /\ useCase.s \in WorkflowExampleKeys
       THEN Returned(TextResponse(<<"example: ", useCase.s>>))
       ELSE Returned(TextResponse(
              <<"availableExamples">> \o
              (IF Truthy(useCase) THEN <<>> ELSE <<"examples">>)))

\* the items of an array argument; an array given by its length only holds
\* the string "a"
Items(v) == IF "items" \in DOMAIN v THEN v.items ELSE [i \in 1..v.n |-> <<"a">>]

\* const { key = byDefault } = args
Destructured(a, key, byDefault) ==
  IF Get(a.obj, key).t = "undefined" THEN byDefault ELSE a.obj[key]

\* the first occurrences of the items of a sequence ([...new Set(seq)])
RECURSIVE Distinct(_)
Distinct(seq) ==
  IF seq = <<>> THEN <<>>
  ELSE LET init == Distinct(SubSeq(seq, 1, Len(seq) - 1))
           last == seq[Len(seq)]
       IN IF last \in Range(init) THEN init ELSE Append(init, last)

\* (mutant) only a requested type that is part of a node's type matches
MatchesNode_oneWay(nodes, nodeType) ==
  \E k \in DOMAIN nodes : includes(nodes[k].type, nodeType)

\* nodeType matches the type of a node of the workflow:
\* wnt.includes(nodeType) || nodeType.includes(wnt)
MatchesNode(nodes, nodeType) ==
  \E k \in DOMAIN nodes :
    includes(nodes[k].type, nodeType) \/ includes(nodeType, nodes[k].type)

foundNodeTypes(f, nodeTypes) ==
  IF nodeTypes.n > 0 /\ f.nodesKind = "array"
  THEN SelectSeq(Items(nodeTypes), LAMBDA nt : MatchesNode(f.nodes, nt))
  ELSE <<>>

foundKeywords(f, keywords) ==
  LET searchText == toLowerCase(f.file \o <<" ">>
                                \o (IF f.named THEN f.wfName ELSE <<>>))
  IN IF keywords.n > 0
     THEN SelectSeq(Items(keywords), LAMBDA kw : includes(searchText, toLowerCase(kw)))
     ELSE <<>>

\* (mutant) without the branch for a search without criteria
matchReasons_noGeneral(f, nodeTypes, keywords) ==
  (IF foundNodeTypes(f, nodeTypes) # <<>>
   THEN <<[reason |-> "Contains nodes: ", found |-> foundNodeTypes(f, nodeTypes)]>>
   ELSE <<>>)
  \o (IF foundKeywords(f, keywords) # <<>>
      THEN <<[reason |-> "Matches keywords: ", found |-> foundKeywords(f, keywords)]>>
      ELSE <<>>)

matchReasons(f, nodeTypes, keywords) ==
  (IF foundNodeTypes(f, nodeTypes) # <<>>
   THEN <<[reason |-> "Contains nodes: ", found |-> foundNodeTypes(f, nodeTypes)]>>
   ELSE <<>>)
  \o (IF foundKeywords(f, keywords) # <<>>
      THEN <<[reason |-> "Matches keywords: ", found |-> foundKeywords(f, keywords)]>>
      ELSE <<>>)
  \o (IF nodeTypes.n = 0 /\ keywords.n = 0
      THEN <<[reason |-> "General workflow example", found |-> <<>>]>>
      ELSE <<>>)

relevantNodes(f, nodeTypes) ==
  SelectSeq(f.nodes, LAMBDA node : \E i \in DOMAIN Items(nodeTypes) :
                         \/ includes(node.type, Items(nodeTypes)[i])
                         \/ includes(Items(nodeTypes)[i], node.type))

\* the workflowInfo pushed for a matching file
workflowInfo(f, nodeTypes, keywords, includeFullWorkflow) ==
  LET excerpt == ~Truthy(includeFullWorkflow) /\ f.nodesKind = "array"
                 /\ nodeTypes.n > 0
  IN [filename |-> f.file,
      name |-> IF f.named /\ f.wfName # <<>> THEN f.wfName ELSE <<"Unnamed Workflow">>,
      matchReasons |-> matchReasons(f, nodeTypes, keywords),
      nodeCount |-> Len(f.nodes),
      nodeTypes |-> Distinct([k \in DOMAIN f.nodes |-> f.nodes[k].type]),
      fullWorkflow |-> Truthy(includeFullWorkflow),
      hasRelevantNodes |-> excerpt,
      relevantNodes |-> IF excerpt THEN relevantNodes(f, nodeTypes) ELSE <<>>,
      hasRelevantConnections |-> excerpt /\ f.hasConnections,
      relevantConnections |->
        IF excerpt /\ f.hasConnections
        THEN {node.name : node \in Range(relevantNodes(f, nodeTypes))} \cap f.connections
        ELSE {}]

\* something in the body of the loop throws for this file: the read, the
\* parse, a property read of null, a method of a non-string item or of a
\* nodes value that is not an array
FileThrows(f, nodeTypes, keywords) ==
  \/ f.read = "error"
  \/ f.content \in {"garbage", "null"}
  \/ /\ f.content = "object"
     /\ \/ nodeTypes.n > 0 /\ f.nodesKind = "other"
        \/ nodeTypes.n > 0 /\ nodeTypes.s # "string" /\ f.nodesKind = "array"
             /\ f.nodes # <<>>
        \/ keywords.n > 0 /\ keywords.s # "string"
        \/ f.nodesKind = "other" /\ matchReasons(f, nodeTypes, keywords) # <<>>

\* the file is pushed to matchingWorkflows
FileMatches(f, nodeTypes, keywords) ==
  /\ f.read = "ok" /\ f.content = "object"
  /\ ~FileThrows(f, nodeTypes, keywords)
  /\ matchReasons(f, nodeTypes, keywords) # <<>>

\* .slice(0, 20) of the JSON entries
ScanLimit == 20

\* (mutant) every JSON entry is gone through
files_unbounded(dir) ==
  SelectSeq(readdirSync(dir),
            LAMBDA i : endsWith(toLowerCase(Catalogue[i].file), <<".json">>))

\* the files the loop goes through
files(dir) ==
  LET json == SelectSeq(readdirSync(dir),
                        LAMBDA i : endsWith(toLowerCase(Catalogue[i].file), <<".json">>))
  IN SubSeq(json, 1, IF Len(json) < ScanLimit THEN Len(json) ELSE ScanLimit)

\* (mutant) the matches stay in the order of the scan
sort_none(matching) == matching

\* matchingWorkflows.sort((a, b) => b.matchReasons.length - a.matchReasons.length):
\* the sort is stable and a match has one or two reasons
sort(matching) ==
  SelectSeq(matching, LAMBDA w : Len(w.matchReasons) = 2)
  \o SelectSeq(matching, LAMBDA w : Len(w.matchReasons) # 2)

\* Array.prototype.slice(0, end): end goes through ToIntegerOrInfinity, a
\* negative end counts from the end of the array
slice(seq, end) ==
  LET n == CASE end.t = "number" -> end.n
             [] end.t = "boolean" -> IF end.s = "true" THEN 1 ELSE 0
             [] OTHER -> 0
      stop == IF n < 0 THEN Len(seq) + n ELSE n
  IN SubSeq(seq, 1, IF stop > Len(seq) THEN Len(seq) ELSE stop)

\* the object that the search hands to JSON.stringify, with the files whose
\* reading or parsing was logged as an error
NoSearch == [ran |-> FALSE, totalMatches |-> 0, examples |-> <<>>,
             matchingWorkflows |-> <<>>, scanned |-> <<>>, errors |-> <<>>]

SearchExamples(a, dir) ==
  LET nodeTypes == Destructured(a, "nodeTypes", StrArr(<<>>))
      keywords == Destructured(a, "keywords", StrArr(<<>>))
      maxExamples == Destructured(a, "maxExamples", Num(2))
      includeFullWorkflow == Destructured(a, "includeFullWorkflow", Bool(FALSE))
      matching == SelectSeq(files(dir),
                            LAMBDA i : FileMatches(Catalogue[i], nodeTypes, keywords))
      infos == [k \in DOMAIN matching |->
                  workflowInfo(Catalogue[matching[k]], nodeTypes, keywords,
                               includeFullWorkflow)]
  IN [ran |-> TRUE,
      totalMatches |-> Len(matching),
      examples |-> slice(sort(infos), maxExamples),
      matchingWorkflows |-> sort(infos),
      scanned |-> files(dir),
      errors |-> SelectSeq(files(dir),
                           LAMBDA i : FileThrows(Catalogue[i], nodeTypes, keywords))]

\* the search has a result object: args is there and the directory can be
\* listed
Searches(a, dir) == a.given /\ dir.state = "listed"

\* console.error(`Error parsing ${file}:`, parseError) of the files passed
\* over
ParseErrorLogs(tool, a, dir) ==
  IF tool = "workflow_examples_search" /\ Searches(a, dir)
  THEN [k \in DOMAIN SearchExamples(a, dir).errors |->
          <<"Error parsing ">> \o Catalogue[SearchExamples(a, dir).errors[k]].file]
  ELSE <<>>

\* (mutant) the loop has no try of its own: the first file that throws ends
\* the search in the handler's outer catch
handleWorkflowExamplesSearch_abort(a, dir) ==
  IF ~a.given THEN DestructureError("nodeTypes")
  ELSE IF dir.state = "missing"
  THEN Returned(TextResponse(
         <<"No examples directory found. Please create examples/workflows folder with workflow JSON files.">>))
  ELSE IF dir.state = "unreadable" \/ SearchExamples(a, dir).errors # <<>>
  THEN Returned(TextResponse(<<"Error searching workflow examples: ",
                               "EACCES: permission denied, scandir">>))
  ELSE Returned(TextResponse(
         <<"searchCriteria", "totalMatches: ",
           ToString(SearchExamples(a, dir).totalMatches),
           "returnedExamples: ",
           ToString(Len(SearchExamples(a, dir).examples)), "examples">>))

handleWorkflowExamplesSearch(a, dir) ==
  IF ~a.given THEN DestructureError("nodeTypes")
  ELSE IF dir.state = "missing"
  THEN Returned(TextResponse(
         <<"No examples directory found. Please create examples/workflows folder with workflow JSON files.">>))
  ELSE IF dir.state = "unreadable"
  THEN Returned(TextResponse(<<"Error searching workflow examples: ",
                               "EACCES: permission denied, scandir">>))
  ELSE Returned(TextResponse(
         <<"searchCriteria", "totalMatches: ",
           ToString(SearchExamples(a, dir).totalMatches),
           "returnedExamples: ",
           ToString(Len(SearchExamples(a, dir).examples)), "examples">>))

\* (mutant) the node catalog is fetched from the remote API
LocalCalls_remoteCatalog(tool, a) ==
  IF tool \in {"node_types_list", "node_type_info"}
  THEN <<Request("GET", <<"/node-types">>, EmptyObj, EmptyObj)>> ELSE <<>>

\* the calls on this.n8nClient in the bodies of the local handlers: none,
\* they read CORE_NODES, NODE_CATEGORIES, their own literals and the
\* examples directory
LocalCalls(tool, a) == <<>>

LocalHandler(tool, a, dir) ==
  CASE tool = "node_types_list" -> handleNodeTypesList(a)
    [] tool = "node_type_info" -> handleNodeTypeInfo(a)
    [] tool = "node_categories" -> handleNodeCategories(a)
    [] tool = "workflow_examples" -> handleWorkflowExamples(a)
    [] tool = "workflow_examples_search" -> handleWorkflowExamplesSearch(a, dir)

(***************************************************************************)
(* The CallTool request handler                                            *)
(***************************************************************************)
\* (mutant) the client is called with the raw arguments before they are
\* validated
HandlerStart_callFirst(tool, a) ==
  LET v == validateAndTransform(HandlerSchema(tool), a) IN
  [threw |-> v.threw, message |-> v.message,
   requests |-> <<ClientCall(tool, a.obj)>>, params |-> v.out]

\* a remote-backed handler up to its await: validate, then call the client
HandlerStart(tool, a) ==
  LET v == validateAndTransform(HandlerSchema(tool), a) IN
  IF v.threw
  THEN [threw |-> TRUE, message |-> v.message, requests |-> <<>>, params |-> EmptyObj]
  ELSE [threw |-> FALSE, message |-> <<>>, requests |-> <<ClientCall(tool, v.out)>>,
        params |-> v.out]

\* (mutant) the default case reports without the name
DefaultCase_anonymous(bld, n) ==
  IF bld = "dist" THEN Returned(createErrorResponse(<<"Unknown tool">>))
  ELSE Threw(<<"Tool is not implemented in this version. Please use the compiled server.">>)

\* the default case of the switch
DefaultCase(bld, n) ==
  IF bld = "dist" THEN Returned(createErrorResponse(<<"Unknown tool: ", n>>))
  ELSE Threw(<<"Tool '", n,
               "' is not implemented in this version. Please use the compiled server.">>)

\* (mutant) the catch block logs and rethrows
CatchBlock_rethrow(message) == [response |-> <<>>, escaped |-> TRUE]

\* the catch block around the switch: what the handler resolves with, and
\* whether the exception leaves the handler
CatchBlock(message) ==
  [response |-> <<createErrorResponse(<<"Tool execution failed: ">> \o message)>>,
   escaped |-> FALSE]

\* the request config the axios instance hands to its interceptors: the
\* call's own config merged with the defaults of axios.create
AxiosRequest(cfg, req) ==
  [method |-> req.method, path |-> req.path, query |-> req.query, body |-> req.body,
   baseURL |-> <<cfg.baseUrl, "/api/v1">>,
   headers |-> [h \in {"X-N8N-API-KEY", "Content-Type"} |->
                  IF h = "X-N8N-API-KEY" THEN cfg.apiKey ELSE "application/json"]]

Sent(cfg, reqs) == [k \in DOMAIN reqs |-> AxiosRequest(cfg, reqs[k])]

\* the AxiosError of a call that did not get a 2xx response: the reply (or
\* its absence) with the config of the request
AxiosError(req, r) ==
  [kind |-> r.kind, status |-> r.status, msg |-> r.msg, cause |-> r.cause,
   body |-> r.body, config |-> req]

\* (mutant) the request interceptor logs the headers too
RequestLog_withHeaders(req) ==
  <<"API Request: ", req.method>> \o req.path \o <<req.headers["X-N8N-API-KEY"]>>

\* console.log of the request interceptor
RequestLog(req) == <<"API Request: ", req.method>> \o req.path
\* console.error of the response interceptor
ErrorLog(r) == <<"API Error:", IF r.msg # "" THEN r.msg ELSE AxiosMessage(r)>>

RECURSIVE RequestLogs(_)
RequestLogs(reqs) ==
  IF reqs = <<>> THEN <<>> ELSE <<RequestLog(Head(reqs))>> \o RequestLogs(Tail(reqs))

Handled(bld) == IF bld = "dist" THEN DistTools ELSE SrcTools

(***************************************************************************)
(* State machine: one invocation at a time runs from the transport's       *)
(* request to the handler's resolution.                                    *)
(***************************************************************************)
\* process.env after dotenv.config(): a variable is unset, empty or set
EnvValues == {Undefined, Str(""), Str("set")}
requiredEnvVars == <<"N8N_BASE_URL", "N8N_API_KEY">>
\* the API keys of the instance
ApiKeys == {"set", "n8n_api_2"}
Environments ==
  [Range(requiredEnvVars) -> EnvValues]
  \cup {[k \in Range(requiredEnvVars) |->
           IF k = "N8N_API_KEY" THEN Str(key) ELSE Str("set")] : key \in ApiKeys}

\* (mutant) only the base URL is required
MissingEnvVars_urlOnly(e) ==
  SelectSeq(<<"N8N_BASE_URL">>, LAMBDA k : ~Truthy(e[k]))

\* the required variables that the check at module load finds missing
MissingEnvVars(e) ==
  SelectSeq(requiredEnvVars, LAMBDA k : ~Truthy(e[k]))

\* the configuration the constructor hands to new N8nClient
NoConfig == [baseUrl |-> "", apiKey |-> ""]
NewClientConfig(e) ==
  [baseUrl |-> e["N8N_BASE_URL"].s, apiKey |-> e["N8N_API_KEY"].s]

\* the last page of a listing the caller has received with a cursor note:
\* the list operation, the cursor read off the response text, and the
\* nextCursor the remote API had put in the body
NoPage == [tool |-> "", echoed |-> "", issued |-> ""]

\* the cursor a response text carries after its 'Next cursor: ' label
CursorIn(text) ==
  IF \E i \in 1..(Len(text) - 1) : text[i] = "Next cursor: "
  THEN text[1 + CHOOSE i \in 1..(Len(text) - 1) : text[i] = "Next cursor: "]
  ELSE ""

\* the caller continues the listing it holds a cursor of
ContinueArgs(n) ==
  IF page.tool = n THEN {ArgsOf([cursor |-> Str(page.echoed)])} ELSE {}

\* invocations in flight at the same time (the transport pipelines)
MaxInFlight == 2
Slots == 1..MaxInFlight
\* one invocation in flight: the locals of its handler (params, the result
\* of the await), the requests it sent and the client configuration they
\* were sent with; overlapped says that another invocation was awaiting its
\* remote call while this one ran
IdleCall == [pc |-> "idle", name |-> "", args |-> NoArgs, dir |-> NoDir,
             params |-> EmptyObj, outbound |-> <<>>, via |-> NoConfig,
             reply |-> NoReply, response |-> <<>>, overlapped |-> FALSE]

Init ==
  /\ build \in {"dist", "src"}
  /\ pc = "idle"
  /\ name = ""
  /\ args = NoArgs
  /\ params = EmptyObj
  /\ outbound = <<>>
  /\ log = <<>>
  /\ reply = NoReply
  /\ response = <<>>
  /\ escaped = FALSE
  /\ validationFailed = FALSE
  /\ page = NoPage
  /\ env \in Environments
  /\ proc = "starting"
  /\ config = NoConfig
  /\ calls = [s \in Slots |-> IdleCall]
  /\ examples = NoDir
  /\ searched = NoSearch

\* module load: the environment check, then new N8nMcpServer() and start()
Start ==
  /\ proc = "starting"
  /\ IF MissingEnvVars(env) # <<>>
     THEN /\ proc' = "exited"
          /\ log' = log \o <<<<"Missing required environment variable: ",
                               Head(MissingEnvVars(env))>>>>
          /\ UNCHANGED config
     ELSE /\ proc' = "serving"
          /\ config' = NewClientConfig(env)
          /\ UNCHANGED log
  /\ UNCHANGED <<build, pc, name, args, params, outbound, reply, response,
                 escaped, validationFailed, page, env, calls, examples, searched>>

\* a handler from its call by the dispatcher until it returns, throws or
\* awaits the client
Begin(cfg, bld, n, a, dir) ==
  IF bld = "dist" /\ n \in DistTools
  THEN LET h == HandlerStart(n, a)
           c == CatchBlock(h.message)
       IN [pc |-> IF h.threw THEN "done" ELSE "awaiting",
           outbound |-> Sent(cfg, h.requests),
           log |-> RequestLogs(Sent(cfg, h.requests))
                   \o (IF h.threw THEN <<<<"Error in tool ", n>>>> ELSE <<>>),
           params |-> h.params,
           validationFailed |-> h.threw,
           response |-> IF h.threw THEN c.response ELSE <<>>,
           escaped |-> IF h.threw THEN c.escaped ELSE FALSE]
  ELSE LET h == IF bld = "src" /\ n \in SrcTools
                THEN LocalHandler(n, a, dir) ELSE DefaultCase(bld, n)
           c == CatchBlock(h.message)
           sent == IF bld = "src" /\ n \in SrcTools
                   THEN Sent(cfg, LocalCalls(n, a)) ELSE <<>>
       IN [pc |-> "done",
           outbound |-> sent,
           log |-> (IF bld = "src" /\ n \in SrcTools
                    THEN ParseErrorLogs(n, a, dir) ELSE <<>>)
                   \o RequestLogs(sent)
                   \o (IF h.threw THEN <<<<"Error in tool ", n>>>> ELSE <<>>),
           params |-> EmptyObj,
           validationFailed |-> FALSE,
           response |-> IF h.threw THEN c.response ELSE <<h.resp>>,
           escaped |-> IF h.threw THEN c.escaped ELSE FALSE]

\* a handler from the settling of its client call, with the requests out
\* sent so far, to its end (or to its next await)
Resume(n, p, out, r) ==
  LET more == FurtherRequests(out[Len(out)], r, Len(out))
      errorLog == IF r.kind # "ok"
                  THEN <<ErrorLog(AxiosError(out[Len(out)], r))>> ELSE <<>>
  IN IF more # <<>>
     THEN [pc |-> "awaiting", outbound |-> out \o more,
           log |-> errorLog \o RequestLogs(more),
           response |-> <<>>, escaped |-> FALSE]
     ELSE LET i == ResponseInterceptor(r)
              f == Format(n, p, i.data)
              failed == i.rejected \/ f.threw
              c == CatchBlock(IF i.rejected THEN i.message ELSE f.message)
          IN [pc |-> "done", outbound |-> out,
              log |-> errorLog
                      \o (IF failed THEN <<<<"Error in tool ", n>>>> ELSE <<>>),
              response |-> IF failed THEN c.response ELSE <<f.resp>>,
              escaped |-> IF failed THEN c.escaped ELSE FALSE]

\* the dispatcher calls the handler of the invocation
CallTool(n, a, dir) ==
  /\ pc = "idle"
  /\ name' = n
  /\ args' = a
  /\ reply' = NoReply
  /\ UNCHANGED <<build, page, env, proc, config, calls>>
  /\ examples' = dir
  /\ searched' = IF build = "src" /\ n = "workflow_examples_search"
                     /\ Searches(a, dir)
                  THEN SearchExamples(a, dir) ELSE NoSearch
  /\ \E b \in {Begin(config, build, n, a, dir)} :
        /\ outbound' = b.outbound
        /\ log' = b.log
        /\ params' = b.params
        /\ validationFailed' = b.validationFailed
        /\ pc' = b.pc
        /\ response' = b.response
        /\ escaped' = b.escaped

\* the remote call settles and the handler runs on
RemoteReply(r) ==
  /\ pc = "awaiting"
  /\ reply' = r
  /\ UNCHANGED <<build, name, args, params, validationFailed, page, env, proc,
                 config, calls, examples, searched>>
  /\ \E x \in {Resume(name, params, outbound, r)} :
        /\ outbound' = x.outbound
        /\ log' = log \o x.log
        /\ pc' = x.pc
        /\ response' = x.response
        /\ escaped' = x.escaped

\* the transport takes the result; the next invocation starts afresh
Return ==
  /\ pc = "done"
  /\ pc' = "idle"
  /\ name' = ""
  /\ args' = NoArgs
  /\ params' = EmptyObj
  /\ outbound' = <<>>
  /\ log' = <<>>
  /\ reply' = NoReply
  /\ response' = <<>>
  /\ escaped' = FALSE
  /\ validationFailed' = FALSE
  /\ page' = IF name \in ListTools /\ Len(response) = 1
                 /\ CursorIn(TextOf(response[1])) # ""
              THEN [tool |-> name, echoed |-> CursorIn(TextOf(response[1])),
                    issued |-> reply.body.cursor]
              ELSE page
  /\ examples' = NoDir
  /\ searched' = NoSearch
  /\ UNCHANGED <<build, env, proc, config, calls>>

Names(bld) == Listed(bld) \cup SrcTools \cup UnknownNames

\* the directory matters to the search handler only
DirStatesFor(n) == IF n = "workflow_examples_search" THEN Directories ELSE {NoDir}

\* the transport delivers an invocation
Invoke ==
  /\ proc = "serving"
  /\ pc = "idle"
  /\ \E n \in Names(build) : \E a \in ArgCases(build, n) \cup ContinueArgs(n) :
       \E dir \in DirStatesFor(n) : CallTool(n, a, dir)

\* the pending remote call settles: fulfilled, rejected with a status, or
\* without response
Settle ==
  /\ pc = "awaiting"
  /\ \E r \in RepliesTo(name) : RemoteReply(r)

Next == Start \/ Invoke \/ Settle \/ Return

Spec == Init /\ [][Next]_vars

(***************************************************************************)
(* Pipelined invocations: the handlers are async functions, so an          *)
(* invocation that awaits its remote call leaves the event loop to the     *)
(* others; a handler without await runs in one step.                       *)
(***************************************************************************)
\* (mutant) workflow_get points the shared client at another base URL
ConfigAfterCall_rebased(cfg, tool, p) ==
  IF tool = "workflow_get" THEN [cfg EXCEPT !.baseUrl = "other"] ELSE cfg

\* this.config and the axios defaults after a client method has run: as
\* before, no method assigns them
ConfigAfterCall(cfg, tool, p) == cfg

\* the invocations and replies of the pipelined runs
ConcCases(bld) ==
  IF bld = "dist"
  THEN {[n |-> "workflow_list", a |-> ArgsOf(EmptyObj), dir |-> NoDir],
        [n |-> "workflow_list", a |-> ArgsOf([limit |-> Num(0)]), dir |-> NoDir],
        [n |-> "workflow_get", a |-> ArgsOf([id |-> Str("a")]), dir |-> NoDir],
        [n |-> "bogus_tool", a |-> NoArgs, dir |-> NoDir]}
  ELSE {[n |-> "node_type_info",
         a |-> ArgsOf([nodeType |-> Str("n8n-nodes-base.slack")]), dir |-> NoDir],
        [n |-> "node_type_info", a |-> ArgsOf(EmptyObj), dir |-> NoDir],
        [n |-> "node_categories", a |-> NoArgs, dir |-> NoDir],
        [n |-> "workflow_examples_search", a |-> ArgsOf(EmptyObj), dir |-> Dir("listed", {1, 4})],
        [n |-> "workflow_examples_search", a |-> ArgsOf(EmptyObj), dir |-> Dir("unreadable", {})],
        [n |-> "workflow_list", a |-> ArgsOf(EmptyObj), dir |-> NoDir]}

ConcReplies ==
  {OkReply([nul |-> FALSE, hasData |-> TRUE, n |-> 1, cursor |-> "Cur-A1",
            complete |-> TRUE, runData |-> <<>>, topError |-> FALSE]),
   OkReply(NoBody), HttpError(404, ""), NoResponse("connect ECONNREFUSED")}

OthersAwaiting(s) == \E t \in Slots \ {s} : calls[t].pc = "awaiting"

\* the invocation run alone: its handler up to the await and, when it
\* awaits, on from the reply r
Alone(bld, n, a, dir, r) ==
  LET b == Begin(NewClientConfig(env), bld, n, a, dir) IN
  IF b.pc = "done" THEN [response |-> b.response, outbound |-> b.outbound]
  ELSE LET x == Resume(n, b.params, b.outbound, r)
       IN [response |-> x.response, outbound |-> x.outbound]

InitConc ==
  /\ build \in {"dist", "src"}
  /\ pc = "idle"
  /\ name = ""
  /\ args = NoArgs
  /\ params = EmptyObj
  /\ outbound = <<>>
  /\ log = <<>>
  /\ reply = NoReply
  /\ response = <<>>
  /\ escaped = FALSE
  /\ validationFailed = FALSE
  /\ page = NoPage
  /\ env = [k \in Range(requiredEnvVars) |-> Str("set")]
  /\ proc = "serving"
  /\ config = NewClientConfig(env)
  /\ calls = [s \in Slots |-> IdleCall]
  /\ examples = NoDir
  /\ searched = NoSearch

Single == <<build, pc, name, args, params, outbound, log, reply, response,
            escaped, validationFailed, page, env, proc, examples, searched>>

\* the transport delivers an invocation while others may be in flight
ConcInvoke(s) ==
  /\ calls[s].pc = "idle"
  /\ \E c \in ConcCases(build) : \E b \in {Begin(config, build, c.n, c.a, c.dir)} :
       /\ calls' = [calls EXCEPT ![s] =
                      [pc |-> b.pc, name |-> c.n, args |-> c.a, dir |-> c.dir,
                       params |-> b.params, outbound |-> b.outbound,
                       via |-> IF b.outbound # <<>> THEN config ELSE NoConfig,
                       reply |-> NoReply, response |-> b.response,
                       overlapped |-> OthersAwaiting(s)]]
       /\ config' = IF b.outbound # <<>>
                     THEN ConfigAfterCall(config, c.n, b.params) ELSE config
  /\ UNCHANGED Single

\* the remote call of one of the invocations settles
ConcSettle(s) ==
  /\ calls[s].pc = "awaiting"
  /\ \E r \in ConcReplies :
       \E x \in {Resume(calls[s].name, calls[s].params, calls[s].outbound, r)} :
         calls' = [calls EXCEPT ![s] =
                     [@ EXCEPT !.pc = x.pc, !.outbound = x.outbound,
                               !.reply = r, !.response = x.response,
                               !.overlapped = @ \/ OthersAwaiting(s)]]
  /\ UNCHANGED config
  /\ UNCHANGED Single

\* the transport takes the result of one of the invocations
ConcReturn(s) ==
  /\ calls[s].pc = "done"
  /\ calls' = [calls EXCEPT ![s] = IdleCall]
  /\ UNCHANGED config
  /\ UNCHANGED Single

NextConc == \E s \in Slots : ConcInvoke(s) \/ ConcSettle(s) \/ ConcReturn(s)

SpecConc == InitConc /\ [][NextConc]_vars

(***************************************************************************)
(* Properties                                                              *)
(***************************************************************************)
Done == pc = "done"
Text == TextOf(response[1])
Remote == build = "dist" /\ name \in DistTools
LimitArg == Get(args.obj, "limit")

\* C1: every invocation, once its handler has run to its end, has resolved
\* with exactly one response holding exactly one text content, and no
\* exception has left the handler; before that it has resolved with nothing.
C1_ExactlyOneTextResponse ==
  /\ ~escaped
  /\ Done => /\ Len(response) = 1
             /\ Len(response[1].content) = 1
             /\ response[1].content[1].type = "text"
  /\ ~Done => response = <<>>

\* the formatter threw on a fulfilled call and the handler still resolved
C1_Witness ==
  /\ Done /\ Remote /\ reply.kind = "ok" /\ reply.body.nul
  /\ name = "workflow_list" /\ Len(response) = 1 /\ IsFailure(response[1])

\* C2: when the remote call failed with an HTTP status, the final response
\* is a failure whose message is the normalized one of that status: 401
\* authentication, 403 permissions, 404 not found, 429 rate limit, any other
\* status the generic form with the status code.
C2_StatusNormalized ==
  (Done /\ Remote /\ reply.kind = "http") =>
    /\ IsFailure(response[1])
    /\ Text[2] = "Tool execution failed: "
    /\ reply.status = 401 => Text[3] = "Authentication failed. Check your API key."
    /\ reply.status = 403 => Text[3] = "Insufficient permissions for this operation."
    /\ reply.status = 404 => Text[3] = "Resource not found."
    /\ reply.status = 429 => Text[3] = "Rate limit exceeded. Please retry later."
    /\ reply.status \notin {401, 403, 404, 429} =>
         /\ Text[3] = "API Error (" /\ Text[4] = ToString(reply.status)
         /\ Text[5] = "): "

C2_Witness ==
  /\ Done /\ name = "workflow_get" /\ reply.kind = "http" /\ reply.status = 404
  /\ IsFailure(response[1])

\* C3: when the validation of the arguments of a remote-backed operation
\* fails, no outbound request is issued during the invocation.
C3_ValidationBeforeCall ==
  (Remote /\ pc # "idle" /\ ~ObjectParse(HandlerSchema(name), args).ok) =>
    outbound = <<>>

C3_Witness ==
  /\ Done /\ Remote /\ name = "workflow_create" /\ validationFailed
  /\ args.given /\ outbound = <<>>

\* C4: a name that is not in the registry yields a failure response whose
\* text contains the name, no remote call, and no exception out of the
\* dispatcher.
C4_UnknownOperation ==
  (Done /\ name \notin Listed(build) \cup Handled(build)) =>
    /\ Len(response) = 1 /\ IsFailure(response[1])
    /\ name \in Range(Text)
    /\ outbound = <<>>
    /\ ~escaped

C4_Witness ==
  /\ Done /\ build = "dist" /\ name = "bogus_tool" /\ IsFailure(response[1])

NormalizedHeads ==
  {"Authentication failed. Check your API key.",
   "Insufficient permissions for this operation.", "Resource not found.",
   "Rate limit exceeded. Please retry later.", "API Error (", "Network Error: "}

C6_MappingTotal ==
  (Done /\ reply.kind \in {"http", "none"}) =>
    /\ Text[3] \in NormalizedHeads
    /\ reply.kind = "none" => (Text[3] = "Network Error: " /\ Text[4] = reply.cause)
    /\ reply.kind = "http" => Text[3] # "Network Error: "

C6_Witness ==
  /\ Done /\ reply.kind = "none" /\ reply.cause = "timeout of 30000ms exceeded"
  /\ Text[3] = "Network Error: "

\* C7: a list operation invoked with a numeric limit outside 1..250 ends in
\* a validation failure naming limit, without an outbound request.
C7_LimitOutOfRange ==
  (Remote /\ name \in ListTools /\ pc # "idle" /\ args.given
     /\ LimitArg.t = "number" /\ (LimitArg.n < 1 \/ LimitArg.n > 250)) =>
    /\ Done
    /\ validationFailed
    /\ outbound = <<>>
    /\ IsFailure(response[1])
    /\ Text[3] = "Validation error: "
    /\ "limit" \in Range(Text)

C7_Witness ==
  /\ Done /\ Remote /\ name = "workflow_list" /\ args.given
  /\ LimitArg = Num(251) /\ validationFailed

\* C8: a list operation invoked without limit sends a request whose limit
\* query parameter is 100.
C8_DefaultLimitSent ==
  (Remote /\ name \in ListTools /\ args.given /\ "limit" \notin DOMAIN args.obj
     /\ Len(outbound) >= 1) =>
    /\ "limit" \in DOMAIN outbound[1].query
    /\ outbound[1].query["limit"] = Num(100)

\* C9: an invocation whose arguments leave out a field that the operation
\* declares as required ends in a failure response whose message contains
\* the name of each field left out.
MissingRequired ==
  Advertised(build, name).required \ (IF args.given THEN DOMAIN args.obj ELSE {})

C9_MissingFieldNamed ==
  (Done /\ name \in Handled(build) /\ MissingRequired # {}) =>
    /\ IsFailure(response[1])
    /\ MissingRequired \subseteq Range(Text)

\* C10: an argument object that satisfies the advertised input schema of an
\* operation is accepted by the validation of that operation.
C10_SchemaAgreesWithValidator ==
  (pc # "idle" /\ name \in Handled(build)
     /\ Satisfies(Advertised(build, name), args)) =>
    ~validationFailed

\* C11: workflow_create invoked with an otherwise valid argument object whose
\* nodes array is empty ends in a validation failure naming nodes, without an
\* outbound request.
C11_EmptyNodesRejected ==
  (Remote /\ name = "workflow_create" /\ pc # "idle" /\ args.given
     /\ Get(args.obj, "nodes") = Arr(0, "node")
     /\ ObjectParse(HandlerSchema(name),
                    ArgsOf([args.obj EXCEPT !["nodes"] = Arr(1, "node")])).ok) =>
    /\ Done
    /\ validationFailed
    /\ outbound = <<>>
    /\ IsFailure(response[1])
    /\ "nodes" \in Range(Text)

\* C12: the nextCursor of the page a list operation received is in the
\* response text as the remote API gave it, a cursor argument is the cursor
\* query parameter of the outbound request as the caller gave it, and so a
\* caller that continues a listing with the cursor it read off the response
\* sends the remote API the token the remote API had issued.
C12_CursorRoundTrip ==
  /\ (Done /\ Remote /\ name \in ListTools /\ ~IsFailure(response[1])) =>
       CursorIn(Text) = reply.body.cursor
  /\ (Remote /\ name \in ListTools /\ Len(outbound) >= 1
        /\ Get(args.obj, "cursor").t = "string") =>
       /\ "cursor" \in DOMAIN outbound[1].query
       /\ outbound[1].query["cursor"] = args.obj["cursor"]
  /\ (Remote /\ page.tool = name /\ Len(outbound) >= 1
        /\ Get(args.obj, "cursor") = Str(page.echoed)) =>
       outbound[1].query["cursor"] = Str(page.issued)
  /\ page.echoed = page.issued

\* the caller has fed the cursor of a page back into the same listing
C12_Witness ==
  /\ Remote /\ name = "execution_list" /\ page.tool = name
  /\ page.issued = "Cur-A1" /\ Len(outbound) = 1
  /\ args = ArgsOf([cursor |-> Str(page.echoed)])
  /\ outbound[1].query = [cursor |-> Str("Cur-A1")]

\* C13: the local catalog operations issue no outbound request, whatever
\* their arguments and whichever path they take, their error paths included.
C13_LocalNoRemoteCall ==
  (name \in SrcTools) => (outbound = <<>> /\ \A i \in DOMAIN log : log[i][1] # "API Request: ")

\* the search has ended on its filesystem error path
C13_Witness ==
  /\ Done /\ build = "src" /\ name = "workflow_examples_search"
  /\ "Error searching workflow examples: " \in Range(Text)
  /\ outbound = <<>>

\* C14: a list operation whose remote call was fulfilled with a JSON object
\* ends in a success response, whichever of the fields its formatter reads
\* (the data array, the fields of an item) the object lacks.
C14_FormattingNeverFails ==
  (Done /\ Remote /\ name \in ListTools /\ reply.kind = "ok" /\ ~reply.body.nul) =>
    ~IsFailure(response[1])

C16_MissingEnvFatal ==
  (\E k \in Range(requiredEnvVars) : env[k] \in {Undefined, Str("")}) =>
    /\ proc \in {"starting", "exited"}
    /\ config = NoConfig
    /\ pc = "idle" /\ name = "" /\ response = <<>> /\ outbound = <<>>

\* the process has exited for an empty API key next to a base URL
C16_Witness ==
  /\ proc = "exited"
  /\ env["N8N_BASE_URL"] = Str("set") /\ env["N8N_API_KEY"] = Str("")
  /\ log = <<<<"Missing required environment variable: ", "N8N_API_KEY">>>>

\* C17: an invocation in which an error occurred (the name has no handler,
\* the validation failed, the remote call was rejected with a status or got
\* no response, or the node type looked up is not in the catalog) ends with
\* a response made by createErrorResponse.
AbsentNodeType ==
  /\ build = "src" /\ name = "node_type_info" /\ args.given
  /\ ~(Get(args.obj, "nodeType").t = "string"
       /\ Get(args.obj, "nodeType").s \in DOMAIN CORE_NODES)

C17_ErrorsAreFailures ==
  (Done /\ (\/ name \notin Handled(build)
            \/ validationFailed
            \/ reply.kind \in {"http", "none"}
            \/ AbsentNodeType)) =>
    IsFailure(response[1])

\* C18: invoking a name that the capability listing returns runs a handler:
\* the invocation does not end in the failure of the default case (unknown
\* tool, or not implemented in this version).
C18_ListedNamesDispatched ==
  (Done /\ name \in Listed(build)) =>
    /\ name \in Handled(build)
    /\ response # <<DefaultCase(build, name).resp>>
    /\ response # CatchBlock(DefaultCase(build, name).message).response

\* C19: a search returns at most five examples, whatever maxExamples the
\* caller supplies, and at most two when maxExamples is left out.
MaxExamplesCap == 5

C19_AtMostFiveExamples ==
  searched.ran =>
    /\ Len(searched.examples) <= MaxExamplesCap
    /\ "maxExamples" \notin DOMAIN args.obj => Len(searched.examples) <= 2

\* C20: a search with neither node types nor keywords (and maxExamples left
\* out or a number from 0 up) returns the valid example files among those
\* scanned, in the order scanned, up to maxExamples of them, and the match
\* reasons of each returned example are the one general reason.
ValidExample(f) ==
  f.read = "ok" /\ f.content = "object" /\ f.nodesKind \in {"absent", "array"}

NoCriteria ==
  /\ searched.ran
  /\ Destructured(args, "nodeTypes", Arr(0, "string")).n = 0
  /\ Destructured(args, "keywords", Arr(0, "string")).n = 0
  /\ Destructured(args, "maxExamples", Num(2)).t = "number"
  /\ Destructured(args, "maxExamples", Num(2)).n >= 0

C20_NoCriteriaReturnsAll ==
  NoCriteria =>
    LET valid == SelectSeq(searched.scanned, LAMBDA i : ValidExample(Catalogue[i]))
        most == Destructured(args, "maxExamples", Num(2)).n
        count == IF Len(valid) < most THEN Len(valid) ELSE most
    IN /\ searched.totalMatches = Len(valid)
       /\ Len(searched.examples) = count
       /\ \A k \in 1..count :
            /\ searched.examples[k].filename = Catalogue[valid[k]].file
            /\ searched.examples[k].matchReasons =
                 <<[reason |-> "General workflow example", found |-> <<>>]>>

\* the whole catalogue searched without criteria: two of its six valid
\* files are returned, its unreadable and unparseable files are passed over
C20_Witness ==
  /\ NoCriteria /\ Done /\ args = ArgsOf(EmptyObj)
  /\ examples = Dir("listed", DOMAIN Fixtures)
  /\ searched.totalMatches = 6 /\ Len(searched.examples) = 2
  /\ searched.errors # <<>>

\* C21: a search with node types and no keywords (maxExamples left out or a
\* number from 0 up) matches exactly the scanned files that hold a node
\* whose type contains, or is contained in, a requested node type; the
\* examples returned are the first maxExamples of them in scan order, and
\* the one match reason of each names the requested types found in it.
TypeMatches(type, requested) == includes(type, requested) \/ includes(requested, type)

HoldsRequestedNode(f, requested) ==
  /\ f.read = "ok" /\ f.content = "object" /\ f.nodesKind = "array"
  /\ \E k \in DOMAIN f.nodes : \E i \in DOMAIN requested :
        TypeMatches(f.nodes[k].type, requested[i])

NodeTypesOnly ==
  /\ searched.ran
  /\ "nodeTypes" \in DOMAIN args.obj
  /\ args.obj.nodeTypes.t = "array" /\ args.obj.nodeTypes.s = "string"
  /\ args.obj.nodeTypes.n > 0
  /\ Destructured(args, "keywords", Arr(0, "string")).n = 0
  /\ Destructured(args, "maxExamples", Num(2)).t = "number"
  /\ Destructured(args, "maxExamples", Num(2)).n >= 0

C21_NodeTypeMatches ==
  NodeTypesOnly =>
    LET requested == Items(args.obj.nodeTypes)
        holders == SelectSeq(searched.scanned,
                             LAMBDA i : HoldsRequestedNode(Catalogue[i], requested))
        most == Destructured(args, "maxExamples", Num(2)).n
        count == IF Len(holders) < most THEN Len(holders) ELSE most
    IN /\ searched.totalMatches = Len(holders)
       /\ Len(searched.examples) = count
       /\ \A k \in 1..count :
            LET f == Catalogue[holders[k]] IN
            /\ searched.examples[k].filename = f.file
            /\ searched.examples[k].matchReasons =
                 <<[reason |-> "Contains nodes: ",
                    found |-> SelectSeq(requested, LAMBDA t :
                                \E j \in DOMAIN f.nodes : TypeMatches(f.nodes[j].type, t))]>>

\* a search for a longer type than the nodes of the files have: of a file
\* with a slack node and a file without one, the first is the one match
C21_Witness ==
  /\ NodeTypesOnly /\ Done
  /\ Items(args.obj.nodeTypes) = << SlackType \o <<"Trigger">> >>
  /\ examples = Dir("listed", {4, 10})
  /\ searched.totalMatches = 1
  /\ searched.examples[1].filename = <<"slack", "-alert", ".json">>
  /\ searched.examples[1].matchReasons[1].found = << SlackType \o <<"Trigger">> >>

\* C22: execution_get with includeData true, answered with run data that
\* holds a failed run, succeeds, and its text has the name of every node
\* with its number of runs, for every failed run its 1-based index with the
\* error message as the remote API gave it, and for every other run its
\* 1-based index with its number of items.
HasFailedRun(rd) == \E k \in DOMAIN rd : \E i \in DOMAIN rd[k].runs : rd[k].runs[i].failed

FailedRunFetched ==
  /\ Done /\ build = "dist" /\ name = "execution_get"
  /\ Get(args.obj, "includeData") = Bool(TRUE)
  /\ reply.kind = "ok" /\ HasFailedRun(reply.body.runData)

C22_FailedRunReported ==
  FailedRunFetched =>
    /\ ~IsFailure(response[1])
    /\ \A k \in DOMAIN reply.body.runData :
         LET e == reply.body.runData[k] IN
         /\ includes(Text, <<e.node, ": ", ToString(Len(e.runs)), " run(s)">>)
         /\ \A i \in DOMAIN e.runs :
              includes(Text,
                IF e.runs[i].failed
                THEN <<"    Run ", ToString(i), ": ERROR - ", e.runs[i].message>>
                ELSE <<"    Run ", ToString(i), ": SUCCESS - ",
                       ToString(e.runs[i].items), " items">>)

\* the second run of a node failed after a first run without items
C22_Witness ==
  /\ FailedRunFetched
  /\ reply.body.runData = <<NodeRuns("Send", <<RunOk(0), RunFailed("429 from upstream")>>)>>
  /\ includes(Text, <<"    Run ", "2", ": ERROR - ", "429 from upstream">>)
  /\ includes(Text, <<"    Run ", "1", ": SUCCESS - ", "0", " items">>)

\* C23: the API key is in no log entry, and what an invocation has logged
\* (the requests' method and path, the failures' response message or error
\* message, the handler's own error lines) is what it logs, with the same
\* arguments and the same remote reply, when the client is configured with
\* any other API key.
LogOf(cfg, bld, n, a, dir, r) ==
  LET b == Begin(cfg, bld, n, a, dir) IN
  IF b.pc = "done" \/ r.kind = "pending" THEN b.log
  ELSE b.log \o Resume(n, b.params, b.outbound, r).log

ViolatedFields ==
  IF Remote /\ args.given
  THEN {k \in Keys(HandlerSchema(name)) :
          ZodParse(HandlerSchema(name)[SchemaOf(HandlerSchema(name), k)][2],
                   Get(args.obj, k)).issues # <<>>}
  ELSE {}

\* the message has an entry for the field: the field's name right after the
\* heading or after the separator of the entry before
HasEntryFor(text, k) ==
  \E i \in 2..Len(text) :
    text[i] = k /\ text[i - 1] \in {"Validation error: ", ", "}

C24_EveryViolationReported ==
  (Done /\ ViolatedFields # {}) =>
    /\ validationFailed /\ IsFailure(response[1])
    /\ \A k \in ViolatedFields : HasEntryFor(Text, k)

\* a listing asked for with a limit out of range and a flag of the wrong
\* type: both fields are in the message
C24_Witness ==
  /\ Done /\ name = "workflow_list"
  /\ ViolatedFields = {"limit", "active"}
  /\ HasEntryFor(Text, "limit") /\ HasEntryFor(Text, "active")

\* C25: workflow_create invoked with arguments that pass validation and
\* leave active out: the validated arguments have active false, and the
\* body of the request the compiled handler sends has active false.
CreateWithoutActive ==
  /\ pc # "idle" /\ name = "workflow_create"
  /\ args.given /\ "active" \notin DOMAIN args.obj

C25_ActiveDefaultsFalse ==
  CreateWithoutActive =>
    LET v == validateAndTransform(IF build = "dist" THEN workflowCreateSchema
                                  ELSE workflowCreateSchemaTs, args)
    IN ~v.threw =>
         /\ Get(v.out, "active") = Bool(FALSE)
         /\ build = "dist" =>
              /\ Len(outbound) = 1
              /\ Get(outbound[1].body, "active") = Bool(FALSE)

\* C26: a list operation that was answered with a page ends its text with
\* the cursor note exactly when the page has a nextCursor, has no cursor
\* note anywhere when it has none, and reports as count the number of
\* items of the page, followed by one summary block per item.
PageListed ==
  /\ Done /\ Remote /\ name \in ListTools
  /\ reply.kind = "ok" /\ ~IsFailure(response[1])

C26_CursorNoteIffNextCursor ==
  PageListed =>
    LET b == reply.body
        note == <<"Next cursor: ", b.cursor>>
    IN /\ (b.cursor # "") <=> endsWith(Text, note)
       /\ b.cursor = "" => \A i \in DOMAIN Text : Text[i] # "Next cursor: "
       /\ includes(Text, <<"Found ", ToString(b.n), ListNoun(name)>>)
       /\ Len(Text) = 4 + b.n * Len(ItemSummary(name, b))
                        + (IF b.cursor # "" THEN 2 ELSE 0)

\* the last page of a listing of tags: one item, no note
C26_Witness ==
  /\ PageListed /\ name = "tag_list"
  /\ reply.body.cursor = "" /\ reply.body.n = 1
  /\ includes(Text, <<"Found ", "1", " tags">>)
  /\ ~includes(Text, <<"Next cursor: ">>)

\* C27: the examples returned are in the order of their number of match
\* reasons, largest first; they are the first of the matches in that order
\* (among matches with as many reasons, in the order of the scan), so no
\* match that the maxExamples limit leaves out has more reasons than one
\* that is returned.
Reasons(w) == Len(w.matchReasons)

C27_RankedByCriteria ==
  searched.ran =>
    LET returned == searched.examples
        all == searched.matchingWorkflows
    IN /\ \A i, j \in DOMAIN returned : i < j => Reasons(returned[i]) >= Reasons(returned[j])
       /\ Len(returned) <= Len(all)
       /\ \A i \in DOMAIN returned : returned[i] = all[i]
       /\ \A k \in DOMAIN all : k > Len(returned) =>
            \A i \in DOMAIN returned : Reasons(all[k]) <= Reasons(returned[i])
       /\ Len(all) = searched.totalMatches
       /\ \A i \in DOMAIN searched.scanned :
            LET f == Catalogue[searched.scanned[i]] IN
            (\E k \in DOMAIN all : all[k].filename = f.file)
              <=> FileMatches(f, Destructured(args, "nodeTypes", StrArr(<<>>)),
                              Destructured(args, "keywords", StrArr(<<>>)))

\* one example asked for: a file that matches by its nodes and by its name
\* is returned before a file scanned earlier that matches by its nodes only
C27_Witness ==
  /\ searched.ran /\ Done
  /\ examples = Dir("listed", {1, 10})
  /\ Get(args.obj, "maxExamples") = Num(1)
  /\ searched.totalMatches = 2 /\ Len(searched.examples) = 1
  /\ searched.examples[1].filename = <<"slack", "-alert", ".json">>
  /\ Reasons(searched.examples[1]) = 2
  /\ Reasons(searched.matchingWorkflows[2]) = 1

\* C28: a file of the directory that cannot be read, is blank, is not JSON,
\* or whose JSON makes the evaluation throw (null, a nodes value that is no
\* array) is passed over: the invocation returns the search result, not an
\* error, the file is not among the matches, every file that throws is
\* logged, and the matches and the examples are those of the same search
\* over the other files that were gone through.
Unusable(f) ==
  \/ f.read = "error"
  \/ f.content \in {"blank", "garbage", "null"}
  \/ f.content = "object" /\ f.nodesKind = "other"

StringCriteria ==
  /\ Destructured(args, "nodeTypes", StrArr(<<>>)).t = "array"
  /\ Destructured(args, "nodeTypes", StrArr(<<>>)).s = "string"
  /\ Destructured(args, "keywords", StrArr(<<>>)).t = "array"
  /\ Destructured(args, "keywords", StrArr(<<>>)).s = "string"

C28_BadFilesSkipped ==
  (searched.ran /\ Done /\ StringCriteria) =>
    LET bad == {i \in examples.entries : Unusable(Catalogue[i])}
        rest == SearchExamples(args, Dir("listed", Range(searched.scanned) \ bad))
    IN /\ ~IsFailure(response[1])
       /\ Text = <<"searchCriteria", "totalMatches: ", ToString(searched.totalMatches),
                   "returnedExamples: ", ToString(Len(searched.examples)), "examples">>
       /\ searched.matchingWorkflows = rest.matchingWorkflows
       /\ searched.examples = rest.examples
       /\ \A k \in DOMAIN searched.matchingWorkflows :
            \A i \in bad : searched.matchingWorkflows[k].filename # Catalogue[i].file
       /\ \A k \in DOMAIN searched.errors :
            /\ searched.errors[k] \in bad
            /\ \E j \in DOMAIN log :
                 log[j] = <<"Error parsing ">> \o Catalogue[searched.errors[k]].file

\* the whole catalogue searched for slack nodes: the unreadable file and
\* the files that do not parse are logged, the blank file is passed over
\* in silence, and the three files with a slack node are the matches
C28_Witness ==
  /\ searched.ran /\ Done /\ StringCriteria
  /\ examples = Dir("listed", DOMAIN Fixtures)
  /\ Items(Get(args.obj, "nodeTypes")) = << <<"slack">> >>
  /\ "keywords" \notin DOMAIN args.obj
  /\ searched.totalMatches = 3
  /\ Len(searched.errors) = 4
  /\ Len(log) = 4

\* C29: with includeFullWorkflow left out or a boolean, every example
\* returned has the full workflow when it is true, and when it is not has
\* an excerpt: relevant nodes that are nodes of the file whose type matches
\* a requested node type, and relevant connections keyed by names of those
\* nodes only.
FullFlag == Destructured(args, "includeFullWorkflow", Bool(FALSE))

C29_FullOrExcerpt ==
  (searched.ran /\ FullFlag.t = "boolean") =>
    \A k \in DOMAIN searched.examples :
      LET w == searched.examples[k]
          requested == Items(Destructured(args, "nodeTypes", StrArr(<<>>)))
      IN IF FullFlag = Bool(TRUE)
         THEN w.fullWorkflow /\ ~w.hasRelevantNodes
         ELSE /\ ~w.fullWorkflow
              /\ w.hasRelevantNodes
              /\ \A i \in DOMAIN w.relevantNodes :
                   \E j \in DOMAIN requested :
                     TypeMatches(w.relevantNodes[i].type, requested[j])
              /\ w.relevantConnections
                   \subseteq {w.relevantNodes[i].name : i \in DOMAIN w.relevantNodes}

\* C30: a search goes through the first 20 JSON entries of the directory
\* listing and no more: the files read are at most 20, every match and
\* every logged file is one of them, and an entry after the twentieth JSON
\* entry is neither a match nor logged.
JsonEntries(dir) ==
  SelectSeq(readdirSync(dir), LAMBDA i :
    LET f == Catalogue[i].file IN Len(f) > 0 /\ Lower(f[Len(f)]) = ".json")

C30_AtMostTwentyFilesRead ==
  searched.ran =>
    LET json == JsonEntries(examples)
        beyond == {json[k] : k \in {j \in DOMAIN json : j > ScanLimit}}
    IN /\ Len(searched.scanned) <= ScanLimit
       /\ \A k \in DOMAIN searched.scanned : searched.scanned[k] = json[k]
       /\ Len(searched.scanned) = IF Len(json) < ScanLimit THEN Len(json) ELSE ScanLimit
       /\ searched.totalMatches + Len(searched.errors) <= ScanLimit
       /\ \A i \in beyond :
            /\ \A k \in DOMAIN searched.matchingWorkflows :
                 searched.matchingWorkflows[k].filename # Catalogue[i].file
            /\ \A k \in DOMAIN searched.errors : searched.errors[k] # i

\* the whole catalogue, with 23 JSON entries, searched for slack nodes with
\* room for 6 examples: 20 files are read, the 12 of them with a slack node
\* match, and the last three entries, which have one too, are left alone
C30_Witness ==
  /\ searched.ran /\ Done
  /\ examples = Dir("listed", DOMAIN Catalogue)
  /\ Len(JsonEntries(examples)) > ScanLimit
  /\ Len(searched.scanned) = ScanLimit
  /\ Items(Get(args.obj, "nodeTypes")) = << <<"slack">> >>
  /\ "keywords" \notin DOMAIN args.obj
  /\ searched.totalMatches = 12
  /\ Len(searched.examples) = 6

====
